---- MODULE Spec2Model ----
(***************************************************************************)
(* Verification model of yapp (Yet Another PE Parser).                     *)
(*                                                                         *)
(*  Spec      the region tracker (MemoryManager) and the Memory objects    *)
(*            that register with it: owned regions, their sub-views and    *)
(*            copies, and the operations that free or move storage.        *)
(*  SpecPE    the same for a PE buffer and the header wrappers obtained    *)
(*            from it through cast_ptr.                                    *)
(*  SpecPure  the pure accessors of Memory (get, cast_ptr, reinterpret,    *)
(*            search, search_dynamic) applied to inputs drawn in Init.     *)
(*  SpecMx    the locking protocol of the tracker operations, one step per *)
(*            lock, unlock and critical section, for several threads.      *)
(*                                                                         *)
(* std::size_t counters are modelled as integers in which a negative n     *)
(* stands for 2^64 + n: increments, decrements and tests against zero are  *)
(* then exactly those of the 64-bit unsigned counter.                      *)
(***************************************************************************)
EXTENDS Integers, Sequences, FiniteSets, Bags, TLC

VARIABLES mm, mems, made, arg, res, stk, mutex

vars == <<mm, mems, made, arg, res, stk, mutex>>

(***************************************************************************)
(* Bounds                                                                  *)
(***************************************************************************)
MaxSize == 2
MaxObjs == 4

(***************************************************************************)
(* Addresses.  The allocator is modelled with two slots, far enough apart  *)
(* that two blocks never overlap; a third address holds the temporary      *)
(* std::vector that reallocate copies the old bytes into.                  *)
(***************************************************************************)
Null == 0
Bases == {1, MaxSize + 2}
ScratchAddr == 2 * MaxSize + 3
UserAddr == 3 * MaxSize + 4
SizeofT == 1

(***************************************************************************)
(* Partial maps (std::map) as functions with an explicit domain.           *)
(***************************************************************************)
EmptyMap == [x \in {} |-> 0]
Put(f, k, v) == [x \in (DOMAIN f) \cup {k} |-> IF x = k THEN v ELSE f[x]]
Drop(f, k) == [x \in (DOMAIN f) \ {k} |-> f[x]]

\* std::pair<const void *, std::size_t> ordering, the iteration order of std::set
KeyLess(a, b) == a[1] < b[1] \/ (a[1] = b[1] /\ a[2] < b[2])

RECURSIVE SortedKeys(_)
SortedKeys(S) ==
    IF S = {} THEN <<>>
    ELSE LET lo == CHOOSE a \in S : \A b \in S \ {a} : KeyLess(a, b)
         IN  <<lo>> \o SortedKeys(S \ {lo})

(***************************************************************************)
(* MemoryManager.  t is the record of the three maps; fault records a      *)
(* std::out_of_range escaping from std::map::at.                           *)
(***************************************************************************)
NewManager == [refcount |-> EmptyMap, children |-> EmptyMap, parents |-> EmptyMap, fault |-> FALSE]

is_valid(t, key) == key \in DOMAIN t.refcount /\ t.refcount[key] # 0

RECURSIVE ref(_, _)
ref(t, key) ==
    IF t.fault THEN t
    ELSE LET count(t2) == IF key \in DOMAIN t2.refcount THEN t2 ELSE [t2 EXCEPT !.fault = TRUE]
             parent(t1) == count(IF key \in DOMAIN t1.parents THEN ref(t1, t1.parents[key]) ELSE t1)
         IN  parent([t EXCEPT !.refcount =
                        IF key \in DOMAIN t.refcount
                        THEN [t.refcount EXCEPT ![key] = @ + 1]
                        ELSE Put(t.refcount, key, 1)])

relationship(t, parent_key, child_key) ==
    IF t.fault \/ parent_key = child_key THEN t
    ELSE LET pa == IF child_key \in DOMAIN t.parents THEN t.parents
                   ELSE Put(t.parents, child_key, parent_key)
             ch == IF parent_key \in DOMAIN t.children THEN t.children
                   ELSE Put(t.children, parent_key, {})
         IN  [t EXCEPT !.parents = pa,
                       !.children = [ch EXCEPT ![parent_key] = @ \cup {child_key}]]

RECURSIVE deref(_, _), invalidate(_, _, _), invalidate_each(_, _)

deref(t, key) ==
    IF t.fault \/ key \notin DOMAIN t.refcount THEN t
    ELSE LET zero(t2, value) == IF value = 0 THEN invalidate(t2, key, TRUE) ELSE t2
             parent(t1, value) ==
                 zero(IF key \in DOMAIN t1.parents THEN deref(t1, t1.parents[key]) ELSE t1, value)
         IN  parent([t EXCEPT !.refcount[key] = @ - 1], t.refcount[key] - 1)

invalidate(t, key, derefed_parent) ==
    IF t.fault \/ key \notin DOMAIN t.refcount THEN t
    ELSE LET last(t3) == IF t3.fault THEN t3 ELSE [t3 EXCEPT !.parents = Drop(t3.parents, key)]
             erased(t2a) == IF t2a.fault THEN t2a
                            ELSE [t2a EXCEPT !.children = Drop(t2a.children, key)]
             kids(t2) == last(IF ~t2.fault /\ key \in DOMAIN t2.children
                              THEN erased(invalidate_each(t2, SortedKeys(t2.children[key])))
                              ELSE t2)
             unlinked(t1a, parent_key) ==
                 IF derefed_parent THEN t1a ELSE deref(t1a, parent_key)
             parent(t1) ==
                 kids(IF key \in DOMAIN t1.parents
                      THEN IF t1.parents[key] \notin DOMAIN t1.children
                           THEN [t1 EXCEPT !.fault = TRUE]
                           ELSE unlinked([t1 EXCEPT !.children[t1.parents[key]] = @ \ {key}],
                                         t1.parents[key])
                      ELSE t1)
         IN  parent([t EXCEPT !.refcount = Drop(t.refcount, key)])

invalidate_each(t, child_keys) ==
    IF child_keys = <<>> THEN t
    ELSE invalidate_each(invalidate(t, Head(child_keys), FALSE), Tail(child_keys))

(***************************************************************************)
(* Memory<std::uint8_t> objects.  ptr/size/allocated are the fields of the *)
(* class; the remaining fields are history kept for the properties:        *)
(*   org    how the object was made: "own" (allocated), "sub" (subsection, *)
(*          at any depth, of an owned region) or "wrap" (a header wrapper  *)
(*          built from a cast_ptr pointer, or a view made from one)        *)
(*   stale  "no" until the root's storage is freed ("dealloc") or moved    *)
(*          ("realloc") after the view was made                            *)
(*   anc    the keys of the regions the view was derived through           *)
(***************************************************************************)
NoMem == [ptr |-> Null, size |-> 0, allocated |-> FALSE,
          org |-> "none", stale |-> "no", anc |-> {}]

KeyOf(m) == <<m.ptr, m.size>>

\* Memory::ptr: nullptr for a null object, InvalidPointerException for a
\* key the tracker does not hold, the pointer otherwise
ptr(t, m) ==
    IF m.ptr = Null THEN "nullptr"
    ELSE IF ~is_valid(t, KeyOf(m)) THEN "InvalidPointerException"
    ELSE "ok"

elements(m) == m.size \div SizeofT

\* Memory::deallocate
deallocate(t, m) ==
    IF m.ptr # Null /\ ~m.allocated
    THEN [mm |-> t, m |-> m, res |-> "NotAllocatedException"]
    ELSE [mm |-> invalidate(t, KeyOf(m), FALSE),
          m |-> [m EXCEPT !.ptr = Null, !.size = 0, !.allocated = FALSE],
          res |-> "ok"]

\* Memory::allocate with size_in_bytes; addr is the allocator's answer
allocate(t, m, byte_size, addr) ==
    LET fresh(d) ==
            IF byte_size < SizeofT
            THEN [d EXCEPT !.res = "InsufficientAllocationException"]
            ELSE [mm |-> ref(d.mm, <<addr, byte_size>>),
                  m |-> [d.m EXCEPT !.ptr = addr, !.size = byte_size, !.allocated = TRUE],
                  res |-> "ok"]
    IN  fresh(IF m.allocated THEN deallocate(t, m) ELSE [mm |-> t, m |-> m, res |-> "ok"])

\* Memory::set_memory without copy, pointer not null
set_memory(t, m, pointer, byte_size) ==
    LET point(d) ==
            [mm |-> ref(d.mm, <<pointer, byte_size>>),
             m |-> [d.m EXCEPT !.ptr = pointer, !.size = byte_size, !.allocated = FALSE],
             res |-> "ok"]
    IN  point(IF m.allocated THEN deallocate(t, m)
              ELSE [mm |-> deref(t, KeyOf(m)), m |-> m, res |-> "ok"])

\* Memory::write<U>(offset, const Memory<U> &data, true) as far as the
\* tracker sees it: the checks, data.reinterpret() (a subsection of data
\* with data's own key) and its destructor
write_memory(t, m, offset, data_key) ==
    LET checked(p) ==
            IF p = "nullptr" THEN [mm |-> t, res |-> "NullPointerException"]
            ELSE IF p # "ok" THEN [mm |-> t, res |-> p]
            ELSE IF offset >= m.size THEN [mm |-> t, res |-> "OutOfBoundsException"]
            ELSE IF ~is_valid(t, data_key) THEN [mm |-> t, res |-> "InvalidPointerException"]
            ELSE IF data_key[2] = 0 THEN [mm |-> t, res |-> "OutOfBoundsException"]
            ELSE [mm |-> deref(ref(relationship(t, data_key, data_key), data_key), data_key),
                  res |-> IF offset + data_key[2] > m.size THEN "OutOfBoundsException" ELSE "ok"]
    IN  checked(ptr(t, m))

\* Memory::write<U>(offset, const U *pointer, size, true): a temporary
\* Memory over the source pointer, the write, the temporary's destructor
write_pointer(t, m, offset, src, byte_size) ==
    LET temporary(w) == [mm |-> deref(w.mm, <<src, byte_size>>), res |-> w.res]
    IN  temporary(write_memory(ref(t, <<src, byte_size>>), m, offset, <<src, byte_size>>))

\* Memory::reallocate with size_in_bytes; addr is the allocator's answer
reallocate(t, m, byte_size, addr) ==
    IF m.ptr # Null /\ ~m.allocated
    THEN [mm |-> t, m |-> m, res |-> "NotAllocatedException"]
    ELSE IF ~m.allocated THEN allocate(t, m, byte_size, addr)
    ELSE LET written(a, w) == [mm |-> w.mm, m |-> a.m, res |-> w.res]
             copied(a) ==
                 IF a.res # "ok" THEN a
                 ELSE written(a, write_pointer(a.mm, a.m, 0, ScratchAddr,
                                               IF byte_size < m.size THEN byte_size ELSE m.size))
             freed(d) == copied(allocate(d.mm, d.m, byte_size, addr))
         IN  freed(deallocate(t, m))

\* Memory::resize
resize(t, m, byte_size, addr) ==
    IF m.ptr # Null /\ ~m.allocated
    THEN [mm |-> t, m |-> m, res |-> "NotAllocatedException"]
    ELSE reallocate(t, m, byte_size, addr)

\* pop that resizes before it reads the last element
pop_resize_first(t, m, addr) ==
    IF elements(m) = 0 THEN [mm |-> t, m |-> m, res |-> "nullopt"]
    ELSE resize(t, m, (elements(m) - 1) * SizeofT, addr)

\* Memory::pop
pop(t, m, addr) ==
    LET checked(p) ==
            IF p # "ok" THEN [mm |-> t, m |-> m, res |-> p]
            ELSE resize(t, m, (elements(m) - 1) * SizeofT, addr)
    IN  IF elements(m) = 0 THEN [mm |-> t, m |-> m, res |-> "nullopt"]
        ELSE checked(ptr(t, m))

\* Memory::append<U>(const U *pointer, size, true): the temporary over the
\* caller's buffer, its reinterpret(), the resize and the write at the end
append(t, m, src, byte_size, addr) ==
    LET src_key == <<src, byte_size>>
        done(r, w) == [mm |-> deref(deref(w.mm, src_key), src_key), m |-> r.m, res |-> w.res]
        resized(r) ==
            done(r, IF r.res = "ok"
                    THEN write_memory(r.mm, r.m, r.m.size - byte_size, src_key)
                    ELSE [mm |-> r.mm, res |-> r.res])
        temporary(t1) ==
            IF m.ptr # Null /\ ~m.allocated
            THEN [mm |-> deref(t1, src_key), m |-> m, res |-> "NotAllocatedException"]
            ELSE resized(resize(ref(relationship(t1, src_key, src_key), src_key),
                                m, m.size + byte_size, addr))
    IN  temporary(ref(t, src_key))

\* Memory::erase(start, end, true) for start <= end
erase(t, m, start, end, addr) ==
    LET tail_key == <<m.ptr + end, m.size - end>>
        written(r, w) == [mm |-> w.mm, m |-> r.m, res |-> w.res]
        moved(r) ==
            IF r.res # "ok" \/ end = m.size THEN r
            ELSE written(r, write_pointer(r.mm, r.m, start, ScratchAddr, m.size - end))
        checked(p) ==
            IF end # m.size /\ p # "ok"
            THEN [mm |-> t, m |-> m,
                  res |-> IF p = "nullptr" THEN "NullPointerException" ELSE p]
            \* end_data = subsection(end, size - end, true).to_vec()
            ELSE moved(reallocate(
                     IF end # m.size
                     THEN deref(ref(relationship(t, KeyOf(m), tail_key), tail_key), tail_key)
                     ELSE t,
                     m, m.size - (end - start), addr))
    IN  IF m.ptr # Null /\ ~m.allocated
        THEN [mm |-> t, m |-> m, res |-> "NotAllocatedException"]
        ELSE IF start = 0 /\ end = m.size THEN deallocate(t, m)
        ELSE IF end > m.size THEN [mm |-> t, m |-> m, res |-> "OutOfBoundsException"]
        ELSE checked(ptr(t, m))

\* Memory::split_off(midpoint) for 0 < midpoint < size: split_at and its two
\* sub-views and their copies in the pair, the owned copy of the right
\* half at copy_addr, the resize, and the destructors of the pair
split_off(t, m, midpoint, addr, copy_addr) ==
    LET left_key == <<m.ptr, midpoint>>
        right_key == <<m.ptr + midpoint, m.size - midpoint>>
        \* the destructors of the pair
        done(c, r) == [mm |-> deref(deref(r.mm, right_key), left_key),
                       m |-> r.m, rhs |-> c.m, res |-> r.res]
        resized(c, w) == done(c, resize(w.mm, m, midpoint, addr))
        \* Memory(split_pair.second.ptr(), size, true)
        owned(c) == resized(c, write_pointer(c.mm, c.m, 0, right_key[1], right_key[2]))
        \* std::make_pair(left, right), then ~right, ~left
        paired(t2) ==
            owned(allocate(deref(deref(ref(ref(t2, left_key), right_key), right_key), left_key),
                           [NoMem EXCEPT !.org = "own"], right_key[2], copy_addr))
        \* left, right
        left(t1) == paired(ref(relationship(t1, KeyOf(m), right_key), right_key))
        checked(p) ==
            IF p # "ok"
            THEN [mm |-> t, m |-> m, rhs |-> NoMem,
                  res |-> IF p = "nullptr" THEN "NullPointerException" ELSE p]
            ELSE left(ref(relationship(t, KeyOf(m), left_key), left_key))
    IN  IF m.ptr # Null /\ ~m.allocated
        THEN [mm |-> t, m |-> m, res |-> "NotAllocatedException", rhs |-> NoMem]
        ELSE checked(ptr(t, m))

\* Memory::clear
clear(t, m) ==
    IF m.ptr # Null /\ ~m.allocated
    THEN [mm |-> t, m |-> m, res |-> "NotAllocatedException"]
    ELSE deallocate(t, m)

\* Memory::insert<U>(offset, const U *pointer, size, true) for 0 < offset:
\* the temporary over the caller's buffer, its reinterpret(), split_at and
\* the pair of sub-views, the reallocate, the two writes and the destructors.
\* An offset past the end constructs an OutOfBoundsException and returns.
insert(t, m, offset, src, byte_size, addr) ==
    LET src_key == <<src, byte_size>>
        left_key == <<m.ptr, offset>>
        right_key == <<m.ptr + offset, m.size - offset>>
        \* ~memory
        failed(t2, e) == [mm |-> deref(t2, src_key), m |-> m, res |-> e]
        \* ~split_point, ~reinterpretted, ~memory
        done(r, w) ==
            [mm |-> deref(deref(deref(deref(w.mm, right_key), left_key), src_key), src_key),
             m |-> r.m, res |-> w.res]
        tail(r, w) ==
            done(r, IF w.res = "ok"
                    THEN write_pointer(w.mm, r.m, offset + byte_size, ScratchAddr, m.size - offset)
                    ELSE w)
        grown(r) ==
            tail(r, IF r.res = "ok" THEN write_memory(r.mm, r.m, offset, src_key)
                    ELSE [mm |-> r.mm, res |-> r.res])
        \* std::make_pair(left, right), ~right, ~left, then the reallocate
        paired(t4) ==
            grown(reallocate(deref(deref(ref(ref(t4, left_key), right_key), right_key), left_key),
                             m, m.size + byte_size, addr))
        \* right = subsection(offset, size - offset, true)
        left(t3) ==
            IF offset >= m.size
            THEN failed(deref(deref(t3, left_key), src_key), "OutOfBoundsException")
            ELSE paired(ref(relationship(t3, KeyOf(m), right_key), right_key))
        \* left = subsection(0, offset, true)
        reinterpretted(t2, p) ==
            IF p # "ok"
            THEN failed(deref(t2, src_key),
                        IF p = "nullptr" THEN "NullPointerException" ELSE p)
            ELSE left(ref(relationship(t2, KeyOf(m), left_key), left_key))
        temporary(t1) ==
            IF m.ptr # Null /\ ~m.allocated THEN failed(t1, "NotAllocatedException")
            ELSE IF offset > m.size THEN failed(t1, "ok")
            ELSE IF byte_size = 0 THEN failed(t1, "OutOfBoundsException")
            ELSE reinterpretted(ref(relationship(t1, src_key, src_key), src_key), ptr(t1, m))
    IN  temporary(ref(t, src_key))

(***************************************************************************)
(* The tracker specifications: construction, sub-views, header wrappers,   *)
(* destruction and the operations that free or move an owned region.       *)
(* mems is the bag of the Memory objects alive, made the number of objects *)
(* constructed so far.                                                     *)
(***************************************************************************)
memVars == <<mm, mems, made>>
pureVars == <<arg, res>>
mxVars == <<stk, mutex>>

Live == BagToSet(mems)
Replace(B, m, n) == (B (-) SetToBag({m})) (+) SetToBag({n})
HasRoom == made < MaxObjs
FreeBases == {b \in Bases : \A m \in Live : ~(m.allocated /\ m.ptr = b)}

RECURSIVE SumOver(_, _)
SumOver(B, S) ==
    IF S = {} THEN 0
    ELSE LET e == CHOOSE x \in S : TRUE IN B[e] + SumOver(B, S \ {e})

\* the views into the block [p, p + n) lose their storage
Lapse(m, p, n, cause) ==
    IF m.org # "own" /\ m.stale = "no" /\ p <= m.ptr /\ m.ptr + m.size <= p + n
    THEN [m EXCEPT !.stale = cause, !.anc = {}] ELSE m

MarkStale(B, p, n, cause) ==
    LET img == {Lapse(m, p, n, cause) : m \in DOMAIN B}
    IN  [x \in img |-> SumOver(B, {m \in DOMAIN B : Lapse(m, p, n, cause) = x})]

\* Memory(std::size_t size, true): a fresh owned region
Construct(n, b) ==
    /\ ~mm.fault
    /\ HasRoom
    /\ b \in FreeBases
    /\ \E a \in {allocate(mm, [NoMem EXCEPT !.org = "own"], n, b)} :
           /\ a.res = "ok"
           /\ mm' = a.mm
           /\ mems' = mems (+) SetToBag({a.m})
    /\ made' = made + 1
    /\ UNCHANGED <<pureVars, mxVars>>

\* the result of the checks of Memory::subsection<std::uint8_t>(offset, size)
subsection_check(t, m, offset, size) ==
    LET checked(p) ==
            IF p = "nullptr" THEN "NullPointerException"
            ELSE IF p # "ok" THEN p
            ELSE IF offset >= m.size THEN "OutOfBoundsException"
            ELSE IF offset + size > m.size THEN "OutOfBoundsException"
            ELSE "ok"
    IN  checked(ptr(t, m))

\* Memory::subsection: the parent-to-child edge, then the borrowed view
Subsection(par, offset, size) ==
    /\ ~mm.fault
    /\ HasRoom
    /\ par \in Live
    /\ subsection_check(mm, par, offset, size) = "ok"
    /\ \E base_ptr \in {par.ptr + offset} :
       \E s \in {set_memory(relationship(mm, KeyOf(par), <<base_ptr, size>>),
                            NoMem, base_ptr, size)} :
           /\ mm' = s.mm
           /\ mems' = mems (+) SetToBag({
                         [s.m EXCEPT !.org = IF par.org = "wrap" THEN "wrap" ELSE "sub",
                                     !.stale = par.stale,
                                     !.anc = IF par.stale # "no" THEN {}
                                             ELSE (par.anc \cup {KeyOf(par)}) \ {<<base_ptr, size>>}]})
    /\ made' = made + 1
    /\ UNCHANGED <<pureVars, mxVars>>

\* the result of the checks of Memory::cast_ptr<U>(offset), sizeof(U) = size
cast_ptr_check(t, m, offset, size) ==
    LET checked(p) == IF p = "nullptr" THEN "NullPointerException" ELSE p
    IN  IF offset >= m.size THEN "OutOfBoundsException"
        ELSE IF offset + size > m.size THEN "OutOfBoundsException"
        ELSE checked(ptr(t, m))

\* PE::dos_header, PE::nt_headers_32, PE::section_table, ...: the pointer
\* returned by cast_ptr converted to a wrapper by Memory(T *pointer)
HeaderWrap(pe, offset, size) ==
    /\ ~mm.fault
    /\ HasRoom
    /\ pe \in Live
    /\ pe.org = "own"
    /\ cast_ptr_check(mm, pe, offset, size) = "ok"
    /\ \E s \in {set_memory(mm, NoMem, pe.ptr + offset, size)} :
           /\ mm' = s.mm
           /\ mems' = mems (+) SetToBag({[s.m EXCEPT !.org = "wrap"]})
    /\ made' = made + 1
    /\ UNCHANGED <<pureVars, mxVars>>

\* Memory::~Memory
Destroy(m) ==
    /\ ~mm.fault
    /\ m \in Live
    /\ mm' = IF m.allocated THEN deallocate(mm, m).mm ELSE deref(mm, KeyOf(m))
    /\ mems' = IF m.allocated
               THEN MarkStale(mems (-) SetToBag({m}), m.ptr, m.size, "dealloc")
               ELSE mems (-) SetToBag({m})
    /\ UNCHANGED <<made, pureVars, mxVars>>

\* Memory::deallocate and Memory::clear on an owned region
Deallocate(m) ==
    /\ ~mm.fault
    /\ m \in Live
    /\ m.allocated
    /\ \E d \in {deallocate(mm, m)} :
           /\ mm' = d.mm
           /\ mems' = MarkStale(Replace(mems, m, d.m), m.ptr, m.size, "dealloc")
    /\ UNCHANGED <<made, pureVars, mxVars>>

\* Memory::reallocate and Memory::resize on an owned or null region
Reallocate(m, n, b) ==
    /\ ~mm.fault
    /\ m \in Live
    /\ m.org = "own"
    /\ b \in FreeBases \cup (IF m.allocated THEN {m.ptr} ELSE {})
    /\ \E r \in {reallocate(mm, m, n, b)} :
           /\ mm' = r.mm
           /\ mems' = IF m.allocated
                      THEN Replace(MarkStale(mems, m.ptr, m.size, "realloc"), m, r.m)
                      ELSE Replace(mems, m, r.m)
    /\ UNCHANGED <<made, pureVars, mxVars>>

\* Memory(const Memory &other)
Copy(other, b) ==
    /\ ~mm.fault
    /\ HasRoom
    /\ other \in Live
    /\ IF other.allocated
       THEN /\ b \in FreeBases
            /\ \E a \in {allocate(mm, [NoMem EXCEPT !.org = "own"], other.size, b)} :
                   /\ mm' = write_memory(a.mm, a.m, 0, KeyOf(other)).mm
                   /\ mems' = mems (+) SetToBag({a.m})
       ELSE /\ b = Null
            /\ other.ptr # Null
            /\ \E c \in {set_memory(mm, NoMem, other.ptr, other.size)} :
                   /\ mm' = c.mm
                   /\ mems' = mems (+) SetToBag({[c.m EXCEPT !.org = other.org,
                                                             !.stale = other.stale,
                                                             !.anc = other.anc]})
    /\ made' = made + 1
    /\ UNCHANGED <<pureVars, mxVars>>

\* the bag after an operation that turned m into n and may have freed
\* or moved m's storage
AfterMove(m, n) ==
    IF n = m THEN mems ELSE Replace(MarkStale(mems, m.ptr, m.size, "realloc"), m, n)

\* Memory::pop on an owned region, or on one that holds nothing
Pop(m, b) ==
    /\ ~mm.fault
    /\ m \in Live
    /\ m.org = "own"
    /\ b \in FreeBases \cup {m.ptr}
    /\ \E r \in {pop(mm, m, b)} :
           /\ mm' = r.mm
           /\ mems' = AfterMove(m, r.m)
    /\ UNCHANGED <<made, pureVars, mxVars>>

\* Memory::append of size bytes of a caller's buffer to an owned region
AppendBytes(m, size, b) ==
    /\ ~mm.fault
    /\ m \in Live
    /\ m.allocated
    /\ m.size + size <= MaxSize
    /\ b \in FreeBases \cup {m.ptr}
    /\ \E r \in {append(mm, m, UserAddr, size, b)} :
           /\ mm' = r.mm
           /\ mems' = AfterMove(m, r.m)
    /\ UNCHANGED <<made, pureVars, mxVars>>

\* Memory::erase of the bytes [start, end) of an owned region
Erase(m, start, end, b) ==
    /\ ~mm.fault
    /\ m \in Live
    /\ m.allocated
    /\ start < end
    /\ end <= m.size
    /\ b \in FreeBases \cup {m.ptr}
    /\ \E r \in {erase(mm, m, start, end, b)} :
           /\ mm' = r.mm
           /\ mems' = IF start = 0 /\ end = m.size
                      THEN MarkStale(Replace(mems, m, r.m), m.ptr, m.size, "dealloc")
                      ELSE AfterMove(m, r.m)
    /\ UNCHANGED <<made, pureVars, mxVars>>

\* Memory::split_off on an owned region
SplitOff(m, midpoint, b, copy_b) ==
    /\ ~mm.fault
    /\ HasRoom
    /\ m \in Live
    /\ m.allocated
    /\ 0 < midpoint
    /\ midpoint < m.size
    /\ copy_b \in FreeBases
    /\ b \in (FreeBases \cup {m.ptr}) \ {copy_b}
    /\ \E r \in {split_off(mm, m, midpoint, b, copy_b)} :
           /\ mm' = r.mm
           /\ mems' = IF r.rhs = NoMem THEN mems ELSE AfterMove(m, r.m) (+) SetToBag({r.rhs})
           /\ made' = IF r.rhs = NoMem THEN made ELSE made + 1
    /\ UNCHANGED <<pureVars, mxVars>>

Init ==
    /\ mm = NewManager
    /\ mems = EmptyBag
    /\ made = 0
    /\ arg = [fn |-> "none"]
    /\ res = [st |-> "none"]
    /\ stk = <<>>
    /\ mutex = 0

Next ==
    \/ \E n \in 1 .. MaxSize, b \in Bases : Construct(n, b)
    \/ \E par \in Live, offset \in 0 .. MaxSize, size \in 0 .. MaxSize : Subsection(par, offset, size)
    \/ \E m \in Live : Destroy(m)
    \/ \E m \in Live : Deallocate(m)
    \/ \E m \in Live, n \in 0 .. MaxSize, b \in Bases : Reallocate(m, n, b)
    \/ \E other \in Live, b \in Bases \cup {Null} : Copy(other, b)
    \/ \E m \in Live, b \in Bases : Pop(m, b)
    \/ \E m \in Live, size \in 1 .. MaxSize, b \in Bases : AppendBytes(m, size, b)
    \/ \E m \in Live, start \in 0 .. MaxSize, end \in 0 .. MaxSize, b \in Bases : Erase(m, start, end, b)
    \/ \E m \in Live, midpoint \in 1 .. MaxSize, b \in Bases, copy_b \in Bases : SplitOff(m, midpoint, b, copy_b)

Spec == Init /\ [][Next]_vars

\* a view of a header wrapper, as a section header is of the section table
WrapSubsection(par, offset, size) ==
    /\ par.org = "wrap"
    /\ Subsection(par, offset, size)

\* SpecPE: a PE buffer, the header wrappers obtained from it and what the
\* buffer and the wrappers go through
NextPE ==
    \/ \E n \in 1 .. MaxSize, b \in Bases : Construct(n, b)
    \/ \E pe \in Live, offset \in 0 .. MaxSize, size \in 1 .. MaxSize : HeaderWrap(pe, offset, size)
    \/ \E par \in Live, offset \in 0 .. MaxSize, size \in 0 .. MaxSize : WrapSubsection(par, offset, size)
    \/ \E m \in Live : Destroy(m)
    \/ \E m \in Live : Deallocate(m)
    \/ \E m \in Live, n \in 0 .. MaxSize, b \in Bases : Reallocate(m, n, b)
    \/ \E other \in Live, b \in Bases \cup {Null} : Copy(other, b)
    \/ \E m \in Live, b \in Bases : Pop(m, b)
    \/ \E m \in Live, size \in 1 .. MaxSize, b \in Bases : AppendBytes(m, size, b)
    \/ \E m \in Live, start \in 0 .. MaxSize, end \in 0 .. MaxSize, b \in Bases : Erase(m, start, end, b)
    \/ \E m \in Live, midpoint \in 1 .. MaxSize, b \in Bases, copy_b \in Bases : SplitOff(m, midpoint, b, copy_b)

SpecPE == Init /\ [][NextPE]_vars

(***************************************************************************)
(* SpecBorrow: the operations that grow or shrink a region, called on a    *)
(* borrowed one (a view: pointer not null, allocated false).  res keeps    *)
(* the call and what it found: the operation, the object and the tracker   *)
(* before, and the outcome and the object after.                           *)
(***************************************************************************)
Borrowed(m) == m.ptr # Null /\ ~m.allocated

\* a call fn on the borrowed region m with the result r of its operator
OnBorrowed(m, fn, r) ==
    /\ ~mm.fault
    /\ m \in Live
    /\ Borrowed(m)
    /\ mm' = r.mm
    /\ mems' = Replace(mems, m, r.m)
    /\ res' = [st |-> r.res, fn |-> fn, m |-> m, after |-> r.m, tracker |-> mm]
    /\ UNCHANGED <<made, arg, mxVars>>

DeallocateView(m) == OnBorrowed(m, "deallocate", deallocate(mm, m))
ReallocateView(m, n, b) == OnBorrowed(m, "reallocate", reallocate(mm, m, n, b))
ResizeView(m, n, b) == OnBorrowed(m, "resize", resize(mm, m, n, b))
AppendView(m, size, b) == OnBorrowed(m, "append", append(mm, m, UserAddr, size, b))
InsertView(m, offset, size, b) ==
    OnBorrowed(m, "insert", insert(mm, m, offset, UserAddr, size, b))
EraseView(m, start, end, b) ==
    /\ start <= end
    /\ OnBorrowed(m, "erase", erase(mm, m, start, end, b))
PopView(m, b) == OnBorrowed(m, "pop", pop(mm, m, b))
ClearView(m) == OnBorrowed(m, "clear", clear(mm, m))
SplitOffView(m, midpoint, b, copy_b) ==
    /\ 0 < midpoint
    /\ midpoint < m.size
    /\ \E r \in {split_off(mm, m, midpoint, b, copy_b)} :
           OnBorrowed(m, "split_off", [mm |-> r.mm, m |-> r.m, res |-> r.res])

NextBorrow ==
    /\ res.st = "none"
    /\ \/ \E n \in 1 .. MaxSize, b \in Bases : Construct(n, b)
       \/ \E par \in Live, offset \in 0 .. MaxSize, size \in 0 .. MaxSize : Subsection(par, offset, size)
       \/ \E m \in Live : Destroy(m)
       \/ \E m \in Live : Deallocate(m)
       \/ \E m \in Live : DeallocateView(m)
       \/ \E m \in Live, n \in 0 .. MaxSize, b \in Bases : ReallocateView(m, n, b)
       \/ \E m \in Live, n \in 0 .. MaxSize, b \in Bases : ResizeView(m, n, b)
       \/ \E m \in Live, size \in 1 .. MaxSize, b \in Bases : AppendView(m, size, b)
       \/ \E m \in Live, offset \in 0 .. MaxSize, size \in 1 .. MaxSize, b \in Bases :
              InsertView(m, offset, size, b)
       \/ \E m \in Live, start \in 0 .. MaxSize, end \in 0 .. MaxSize, b \in Bases :
              EraseView(m, start, end, b)
       \/ \E m \in Live, b \in Bases : PopView(m, b)
       \/ \E m \in Live : ClearView(m)
       \/ \E m \in Live, midpoint \in 1 .. MaxSize, b \in Bases, copy_b \in Bases :
              SplitOffView(m, midpoint, b, copy_b)

SpecBorrow == Init /\ [][NextBorrow]_vars

NoFault == ~mm.fault
NoWrap == \A k \in DOMAIN mm.refcount : mm.refcount[k] > 0

(***************************************************************************)
(* The pure accessors.  A region is a record                               *)
(*   [null   |-> the pointer is nullptr (default-constructed, deallocated), *)
(*    esz    |-> sizeof(T),                                                *)
(*    bytes  |-> the bytes of the region, a sequence of 0 .. 255]          *)
(* that the tracker holds valid.  A result is [st |-> "ok", ...] or        *)
(* [st |-> the exception thrown].                                          *)
(***************************************************************************)
MaxRegionLen == 4
MaxTermLen == 3
MaxCastLen == 8

Threw(e) == [st |-> e]

byte_size(R) == Len(R.bytes)
element_size(R) == R.esz
region_elements(R) == byte_size(R) \div R.esz

\* the element at index i: the bytes the pointer ptr()[i] designates
ElementAt(R, i) == SubSeq(R.bytes, i * R.esz + 1, i * R.esz + R.esz)

\* little-endian value of a byte sequence
RECURSIVE Decode(_)
Decode(bs) == IF bs = <<>> THEN 0 ELSE Head(bs) + 256 * Decode(Tail(bs))

\* get with the bounds check ahead of the null check
get_bounds_first(R, index) ==
    IF index >= region_elements(R) THEN Threw("OutOfBoundsException")
    ELSE IF R.null THEN Threw("NullPointerException")
    ELSE [st |-> "ok", at |-> index * R.esz, val |-> ElementAt(R, index)]

\* Memory::get
get(R, index) ==
    IF R.null THEN Threw("NullPointerException")
    ELSE IF index >= region_elements(R) THEN Threw("OutOfBoundsException")
    ELSE [st |-> "ok", at |-> index * R.esz, val |-> ElementAt(R, index)]

\* Memory::aligns_with(size) of a non-variadic region.  bigger % smaller
\* with smaller = 0 is undefined: ub is what the build does then, "trap",
\* or "aligned" or "unaligned" as the comparison happens to yield
aligns_with(R, size, ub) ==
    LET smaller == IF element_size(R) < size THEN element_size(R) ELSE size
        bigger == IF element_size(R) > size THEN element_size(R) ELSE size
    IN  IF smaller = 0 THEN ub
        ELSE IF bigger % smaller = 0 THEN "aligned" ELSE "unaligned"

\* Memory::cast_ptr<U>(offset, true) followed by the read of the U it
\* points to; usz = sizeof(U)
cast_ptr(R, usz, offset, ub) ==
    LET fixed_offset == offset
        al == aligns_with(R, fixed_offset, ub)
    IN  IF fixed_offset >= byte_size(R) THEN Threw("OutOfBoundsException")
        ELSE IF aligns_with(R, usz, "trap") # "aligned" THEN Threw("AlignmentException")
        ELSE IF al = "trap" THEN Threw("SIGFPE")
        ELSE IF al # "aligned" THEN Threw("AlignmentException")
        ELSE IF fixed_offset + usz > byte_size(R) THEN Threw("OutOfBoundsException")
        ELSE LET g == get(R, fixed_offset \div R.esz)
             IN  IF g.st # "ok" THEN g
                 ELSE [st |-> "ok", at |-> g.at,
                       val |-> Decode(SubSeq(R.bytes, g.at + 1, g.at + usz))]

\* Memory::elements_needed<U> of a non-variadic region
elements_needed(R, usz) == R.esz \div usz

\* the checks of Memory::read<U>(offset, size) with size in elements of U
read_check(R, usz, offset, size) ==
    IF R.null THEN "NullPointerException"
    ELSE IF offset * R.esz >= byte_size(R) THEN "OutOfBoundsException"
    ELSE IF aligns_with(R, usz, "trap") # "aligned" THEN "AlignmentException"
    ELSE IF offset * R.esz + size * usz > byte_size(R) THEN "OutOfBoundsException"
    ELSE "ok"

\* Memory::subsection<U>(offset, size) seen as a view [off, len, esz]
subsection_view(R, usz, offset, size) ==
    LET b_size == size * usz
        fixed_offset == offset * R.esz
    IN  IF R.null THEN Threw("NullPointerException")
        ELSE IF fixed_offset >= byte_size(R) THEN Threw("OutOfBoundsException")
        ELSE IF aligns_with(R, usz, "trap") # "aligned" THEN Threw("AlignmentException")
        ELSE IF fixed_offset + b_size > byte_size(R) THEN Threw("OutOfBoundsException")
        ELSE [st |-> "ok", off |-> fixed_offset, len |-> b_size, esz |-> usz]

\* Memory::subsection(offset, size, true), offset and size in bytes, seen as
\* a view [off, len, esz]; the view starts at the element the offset lies in
subsection_bytes(R, offset, size, ub) ==
    LET view(al) ==
            IF al = "trap" THEN Threw("SIGFPE")
            ELSE IF al # "aligned" THEN Threw("AlignmentException")
            ELSE IF offset + size > byte_size(R) THEN Threw("OutOfBoundsException")
            ELSE [st |-> "ok", off |-> (offset \div element_size(R)) * element_size(R),
                  len |-> size, esz |-> R.esz]
    IN  IF R.null THEN Threw("NullPointerException")
        ELSE IF offset >= byte_size(R) THEN Threw("OutOfBoundsException")
        ELSE IF aligns_with(R, R.esz, "trap") # "aligned" THEN Threw("AlignmentException")
        ELSE view(aligns_with(R, size, ub))

\* Memory::split_at: the two views, or the exception of the first step that
\* throws; the midpoint is compared with the size in bytes as it was given
split_at(R, midpoint, mid_in_bytes, ub) ==
    LET pair(left, right) ==
            IF left.st # "ok" THEN left
            ELSE IF right.st # "ok" THEN right
            ELSE [st |-> "ok", first |-> left, second |-> right]
        split(fixed_point) ==
            pair(subsection_bytes(R, 0, fixed_point, ub),
                 subsection_bytes(R, fixed_point, byte_size(R) - fixed_point, ub))
        aligned(fixed_point, al) ==
            IF mid_in_bytes /\ al = "trap" THEN Threw("SIGFPE")
            ELSE IF mid_in_bytes /\ al # "aligned" THEN Threw("AlignmentException")
            ELSE split(fixed_point)
        at(fixed_point) ==
            IF midpoint > byte_size(R) THEN Threw("OutOfBoundsException")
            ELSE aligned(fixed_point, aligns_with(R, fixed_point, ub))
    IN  at(IF mid_in_bytes THEN midpoint ELSE midpoint * R.esz)

\* Memory::reinterpret<U>
reinterpret(R, usz) ==
    IF aligns_with(R, usz, "trap") # "aligned" THEN Threw("AlignmentException")
    ELSE LET needed == elements_needed(R, usz)
             adjusted_size == byte_size(R) \div usz
         IN  IF needed > 0 /\ adjusted_size % needed # 0
             THEN IF read_check(R, usz, 0, adjusted_size) = "ok"
                  THEN Threw("InsufficientDataException")
                  ELSE Threw(read_check(R, usz, 0, adjusted_size))
             ELSE subsection_view(R, usz, 0, adjusted_size)

\* the bytes of B with the bytes bs written at the byte offset at
Poke(B, at, bs) ==
    [i \in 1 .. Len(B) |-> IF at < i /\ i <= at + Len(bs) THEN bs[i - at] ELSE B[i]]

\* the bytes of bs, copied to the byte offset at, that land behind the end of
\* the image B: memory that is not the buffer's
Behind(B, at, bs) ==
    IF at + Len(bs) <= Len(B) THEN <<>>
    ELSE SubSeq(bs, (IF at < Len(B) THEN Len(B) - at ELSE 0) + 1, Len(bs))

\* Memory<T>::write<U>(offset, const Memory<U> &data, offset_in_bytes) on
\* the region R, data being the region D: the outcome, the bytes of R as
\* the call leaves them, and the bytes it puts behind the end of R.  The
\* checks use the offset in bytes; std::memcpy writes to &ptr()[offset],
\* the offset as it was given counted in elements of T
write(R, D, offset, offset_in_bytes) ==
    LET fail(e) == [st |-> e, B |-> R.bytes, behind |-> <<>>]
        copy(bytes) ==
            [st |-> "ok", B |-> Poke(R.bytes, offset * R.esz, bytes),
             behind |-> Behind(R.bytes, offset * R.esz, bytes)]
        cast(fixed_offset, reinterpretted) ==
            IF reinterpretted.st # "ok" THEN fail(reinterpretted.st)
            ELSE IF fixed_offset + reinterpretted.len > byte_size(R)
            THEN fail("OutOfBoundsException")
            ELSE copy(SubSeq(D.bytes, reinterpretted.off + 1,
                             reinterpretted.off + reinterpretted.len))
        checked(fixed_offset) ==
            IF R.null THEN fail("NullPointerException")
            ELSE IF fixed_offset >= byte_size(R) THEN fail("OutOfBoundsException")
            ELSE IF aligns_with(R, D.esz, "trap") # "aligned" THEN fail("AlignmentException")
            ELSE cast(fixed_offset, reinterpret(D, R.esz))
    IN  checked(IF offset_in_bytes THEN offset ELSE offset * R.esz)

\* the first loop with "<" for "<=": the last offset is not visited
RECURSIVE potential_exclusive(_, _, _, _)
potential_exclusive(B, first, lo, hi) ==
    IF lo >= hi THEN <<>>
    ELSE (IF B[lo + 1] = first THEN <<lo>> ELSE <<>>)
             \o potential_exclusive(B, first, lo + 1, hi)

\* the first loop of search and search_dynamic: the offsets i of lo .. hi,
\* in the order visited, where element i of B equals the value first
RECURSIVE potential(_, _, _, _)
potential(B, first, lo, hi) ==
    IF lo > hi THEN <<>>
    ELSE (IF B[lo + 1] = first THEN <<lo>> ELSE <<>>) \o potential(B, first, lo + 1, hi)

\* a std::optional of a search_dynamic term: std::nullopt is the wildcard
nullopt == [has_value |-> FALSE]
Some(x) == [has_value |-> TRUE, value |-> x]

\* the comparison that leaves the loop at the first wildcard after the first
\* value instead of passing over it
matches_rest_until_wildcard(B, term, shift, offset) ==
    \A i \in shift + 1 .. Len(term) - 1 :
        \/ \E j \in shift + 1 .. i : ~term[j + 1].has_value
        \/ B[(offset - shift) + i + 1] = term[i + 1].value

\* the comparison of the elements after the first one at one offset; the
\* terms of search have no wildcard and shift = 0 there
matches_rest(B, term, shift, offset) ==
    \A i \in shift + 1 .. Len(term) - 1 :
        ~term[i + 1].has_value \/ B[(offset - shift) + i + 1] = term[i + 1].value

\* the second loop: the potential offsets whose other elements match too
RECURSIVE verified(_, _, _, _)
verified(B, term, shift, offsets) ==
    IF offsets = <<>> THEN <<>>
    ELSE (IF matches_rest(B, term, shift, Head(offsets)) THEN <<Head(offsets)>> ELSE <<>>)
             \o verified(B, term, shift, Tail(offsets))

\* Memory<std::uint8_t>::search of a term of the same type
search(B, term) ==
    IF term = <<>> THEN Threw("OutOfBoundsException")
    ELSE IF Len(term) > Len(B) THEN Threw("OutOfBoundsException")
    ELSE LET potential_offsets == potential(B, term[1], 0, Len(B) - Len(term))
             whole == [i \in 1 .. Len(term) |-> Some(term[i])]
         IN  [st |-> "ok", val |-> verified(B, whole, 0, potential_offsets)]

\* the leading wildcards of a search_dynamic term
RECURSIVE Shift(_)
Shift(term) ==
    IF term = <<>> \/ Head(term).has_value THEN 0 ELSE 1 + Shift(Tail(term))

\* search_dynamic that looks for the wildcards before it compares the sizes
search_dynamic_broad_first(B, term) ==
    LET shift == Shift(term)
    IN  IF shift = Len(term) THEN Threw("SearchTooBroadException")
        ELSE IF Len(term) > Len(B) THEN Threw("OutOfBoundsException")
        ELSE LET potential_offsets ==
                     potential(B, term[shift + 1].value, shift, Len(B) - (Len(term) - shift))
                 found == verified(B, term, shift, potential_offsets)
             IN  [st |-> "ok",
                  val |-> [k \in 1 .. Len(found) |->
                             <<found[k] - shift,
                               SubSeq(B, found[k] - shift + 1, found[k] - shift + Len(term))>>]]

\* Memory<std::uint8_t>::search_dynamic
search_dynamic(B, term) ==
    IF Len(term) > Len(B) THEN Threw("OutOfBoundsException")
    ELSE LET shift == Shift(term)
         IN  IF shift = Len(term) THEN Threw("SearchTooBroadException")
             ELSE LET potential_offsets ==
                          potential(B, term[shift + 1].value, shift, Len(B) - (Len(term) - shift))
                      found == verified(B, term, shift, potential_offsets)
                  IN  [st |-> "ok",
                       val |-> [k \in 1 .. Len(found) |->
                                  <<found[k] - shift,
                                    SubSeq(B, found[k] - shift + 1, found[k] - shift + Len(term))>>]]

(***************************************************************************)
(* SpecPure: an input is drawn in Init and the accessor is applied to it.  *)
(***************************************************************************)
RECURSIVE SeqsUpTo(_, _)
SeqsUpTo(S, n) ==
    IF n = 0 THEN {<<>>}
    ELSE LET shorter == SeqsUpTo(S, n - 1)
         IN  shorter \cup {Append(q, x) : q \in {r \in shorter : Len(r) = n - 1}, x \in S}

ElemSizes == {1, 2, 4}
Pattern(n) == [i \in 1 .. n |-> i]
Regions == {[null |-> FALSE, esz |-> e, bytes |-> Pattern(n)] : e \in ElemSizes, n \in 0 .. MaxCastLen}
              \cup {[null |-> TRUE, esz |-> e, bytes |-> <<>>] : e \in ElemSizes}
NonNull == {R \in Regions : ~R.null}

SearchVals == {1, 2}
GetInputs == {[fn |-> "get", R |-> R, index |-> i] : R \in Regions, i \in 0 .. MaxCastLen}
CastInputs == {[fn |-> "cast_ptr", R |-> R, usz |-> u, offset |-> o] :
                  R \in NonNull, u \in ElemSizes, o \in 0 .. MaxCastLen}
ReinterpretInputs == {[fn |-> "reinterpret", R |-> R, usz |-> u] :
                         R \in NonNull, u \in ElemSizes}
SearchInputs == {[fn |-> "search", B |-> B, term |-> t] :
                    B \in SeqsUpTo(SearchVals, MaxRegionLen),
                    t \in SeqsUpTo(SearchVals, MaxTermLen)}
\* the region and the pattern of test_readonly_memory: the 19 bytes
\* FF 27 63 58 27 64 FF 27 64 88 65 43 27 38 48 58 64 27 64 and the pattern
\* [nullopt, 0x27, 0x64, nullopt, 0x27, 0x64]
dynamic_data ==
    <<255, 39, 99, 88, 39, 100, 255, 39, 100, 136, 101, 67, 39, 56, 72, 88, 100, 39, 100>>
dynamic_search == <<nullopt, Some(39), Some(100), nullopt, Some(39), Some(100)>>

DynamicInputs == {[fn |-> "search_dynamic", B |-> B, term |-> t] :
                     B \in SeqsUpTo(SearchVals, MaxRegionLen),
                     t \in SeqsUpTo({Some(x) : x \in SearchVals} \cup {nullopt}, MaxTermLen)}
                     \cup {[fn |-> "search_dynamic", B |-> dynamic_data, term |-> dynamic_search]}

\* regions of whole elements to split, at every midpoint up to one
\* element behind the end, given in elements or in bytes
SplitInputs ==
    {[fn |-> "split_at", R |-> R, midpoint |-> m, mid_in_bytes |-> b] :
        R \in {Q \in Regions : byte_size(Q) % Q.esz = 0}, m \in 0 .. MaxCastLen + 1,
        b \in BOOLEAN}

\* regions of whole elements to write to, and the data written: regions of
\* whole elements of 1, 2 or 4 bytes, their bytes unlike those of Pattern
Whole == {Q \in Regions : byte_size(Q) % Q.esz = 0}
DataRegions ==
    {Q \in {[null |-> FALSE, esz |-> u, bytes |-> [i \in 1 .. n |-> 100 + i]] :
                u \in ElemSizes, n \in {1, 2, 4, 6, 8}} : byte_size(Q) % Q.esz = 0}
WriteInputs ==
    {[fn |-> "write", R |-> R, D |-> D, offset |-> o, offset_in_bytes |-> b] :
        R \in Whole, D \in DataRegions, o \in 0 .. MaxCastLen, b \in BOOLEAN}

InitPure ==
    /\ mm = NewManager
    /\ mems = EmptyBag
    /\ made = 0
    /\ arg \in GetInputs \cup CastInputs \cup ReinterpretInputs \cup SearchInputs
                  \cup DynamicInputs \cup SplitInputs \cup WriteInputs
    /\ res = [st |-> "none"]
    /\ stk = <<>>
    /\ mutex = 0

Pending(fn) == arg.fn = fn /\ res.st = "none"

DoGet ==
    /\ Pending("get")
    /\ res' = get(arg.R, arg.index)
    /\ UNCHANGED <<memVars, arg, mxVars>>

DoCastPtr(ub) ==
    /\ Pending("cast_ptr")
    /\ res' = cast_ptr(arg.R, arg.usz, arg.offset, ub)
    /\ UNCHANGED <<memVars, arg, mxVars>>

DoReinterpret ==
    /\ Pending("reinterpret")
    /\ res' = reinterpret(arg.R, arg.usz)
    /\ UNCHANGED <<memVars, arg, mxVars>>

DoSplitAt(ub) ==
    /\ Pending("split_at")
    /\ res' = split_at(arg.R, arg.midpoint, arg.mid_in_bytes, ub)
    /\ UNCHANGED <<memVars, arg, mxVars>>

\* a std::memcpy that runs past the region either goes unnoticed or ends
\* the process
DoWrite ==
    /\ Pending("write")
    /\ \E r \in {write(arg.R, arg.D, arg.offset, arg.offset_in_bytes)} :
       \E st \in (IF r.behind = <<>> THEN {r.st} ELSE {"ok", "SIGSEGV"}) :
           res' = [st |-> st, B |-> r.B, behind |-> r.behind]
    /\ UNCHANGED <<memVars, arg, mxVars>>

DoSearch ==
    /\ Pending("search")
    /\ res' = search(arg.B, arg.term)
    /\ UNCHANGED <<memVars, arg, mxVars>>

DoSearchDynamic ==
    /\ Pending("search_dynamic")
    /\ res' = search_dynamic(arg.B, arg.term)
    /\ UNCHANGED <<memVars, arg, mxVars>>

NextPure ==
    \/ DoGet
    \/ \E ub \in {"trap", "aligned", "unaligned"} : DoCastPtr(ub)
    \/ DoReinterpret
    \/ \E ub \in {"trap", "aligned", "unaligned"} : DoSplitAt(ub)
    \/ DoWrite
    \/ DoSearch
    \/ DoSearchDynamic

SpecPure == InitPure /\ [][NextPure]_vars

(***************************************************************************)
(* PE images.  An image is the byte sequence B of the buffer of the PE     *)
(* (a Memory<std::uint8_t> that the tracker holds valid); the headers are  *)
(* read from it at the offsets of the structures of <windows.h>, which     *)
(* raw.hpp repeats.  A std::uint16_t, std::uint32_t or std::uint64_t is    *)
(* the sequence of its 2, 4 or 8 bytes, least significant first, and the   *)
(* arithmetic of the code is carried out on these sequences, so that every *)
(* sum and difference wraps at the width the code computes it in.          *)
(***************************************************************************)
RECURSIVE LE(_, _)
\* the w bytes of the number n
LE(n, w) == IF w = 0 THEN <<>> ELSE <<n % 256>> \o LE(n \div 256, w - 1)

\* conversion to a wider or narrower unsigned type
Cast(a, w) == [i \in 1 .. w |-> IF i <= Len(a) THEN a[i] ELSE 0]

RECURSIVE AddCarry(_, _, _)
AddCarry(a, b, c) ==
    IF a = <<>> THEN <<>>
    ELSE <<(Head(a) + Head(b) + c) % 256>>
             \o AddCarry(Tail(a), Tail(b), (Head(a) + Head(b) + c) \div 256)

RECURSIVE SubBorrow(_, _, _)
SubBorrow(a, b, c) ==
    IF a = <<>> THEN <<>>
    ELSE <<(Head(a) - Head(b) - c + 256) % 256>>
             \o SubBorrow(Tail(a), Tail(b), IF Head(a) - Head(b) - c < 0 THEN 1 ELSE 0)

\* a + b and a - b in the type of a
Plus(a, b) == AddCarry(a, Cast(b, Len(a)), 0)
Minus(a, b) == SubBorrow(a, Cast(b, Len(a)), 0)

RECURSIVE Below(_, _)
\* a < b for two numbers of the same width
Below(a, b) ==
    IF a = <<>> THEN FALSE
    ELSE IF a[Len(a)] # b[Len(b)] THEN a[Len(a)] < b[Len(b)]
    ELSE Below(SubSeq(a, 1, Len(a) - 1), SubSeq(b, 1, Len(b) - 1))

\* a < b after the usual conversion to the wider type (at most 64 bits)
Less(a, b) == Below(Cast(a, 8), Cast(b, 8))
AtMost(a, b) == ~Less(b, a)

\* 2^32 - 1
Ones32 == [i \in 1 .. 4 |-> 255]

\* the field of w bytes at the byte offset at of the image; at is a number
Field(B, at, w) == SubSeq(B, at + 1, at + w)

\* the bytes of that field that lie inside the image
Inside(B, at, w) ==
    SubSeq(B, (IF at < Len(B) THEN at ELSE Len(B)) + 1,
           IF at + w < Len(B) THEN at + w ELSE Len(B))

\* a std::size_t that is at most n, as a number; n + 1 for anything larger
Clip(a, n) == IF Less(LE(n, 8), a) THEN n + 1 ELSE Decode(Cast(a, 3))

\* sizes and field offsets of the structures
SizeofDOSHeader == 64
SizeofFileHeader == 20
SizeofNTHeaders32 == 248
SizeofNTHeaders64 == 264
SizeofSectionHeader == 40
At_e_lfanew == 60
At_Machine == 4
At_NumberOfSections == 6
At_SizeOfOptionalHeader == 20
At_OptionalHeader == 24
At_ImageBase32 == 28
At_ImageBase64 == 24
At_SizeOfImage == 56
At_CheckSum == 64
At_VirtualSize == 8
At_VirtualAddress == 12
At_SizeOfRawData == 16
At_PointerToRawData == 20

IMAGE_DOS_SIGNATURE == 23117
IMAGE_NT_SIGNATURE == 17744
IMAGE_NT_OPTIONAL_HDR32_MAGIC == 267
IMAGE_NT_OPTIONAL_HDR64_MAGIC == 523
IMAGE_FILE_MACHINE_I386 == 332
IMAGE_FILE_MACHINE_ARM == 448
IMAGE_FILE_MACHINE_AMD64 == 34404
IMAGE_FILE_MACHINE_ARM64 == 43620

\* Memory<std::uint8_t>::cast_ptr<U>(offset) on the buffer of a PE,
\* usz = sizeof(U): the place of the U, as a number
cast_ptr_at(B, offset, usz) ==
    LET cast(fixed_offset) ==
            IF fixed_offset >= Len(B) THEN Threw("OutOfBoundsException")
            ELSE IF fixed_offset + usz > Len(B) THEN Threw("OutOfBoundsException")
            ELSE [st |-> "ok", at |-> fixed_offset]
    IN  cast(Clip(offset, Len(B)))

\* PE::valid_dos_header followed by PE::e_lfanew's read
e_lfanew(B) ==
    LET read(dos_header) ==
            IF dos_header.st # "ok" THEN dos_header
            ELSE IF Field(B, 0, 2) # LE(IMAGE_DOS_SIGNATURE, 2)
            THEN Threw("InvalidDOSSignatureException")
            ELSE [st |-> "ok", val |-> Field(B, At_e_lfanew, 4)]
    IN  read(cast_ptr_at(B, LE(0, 8), SizeofDOSHeader))

\* PE::nt_headers_32 and PE::nt_headers_64: the place of the NT headers
nt_headers(B, usz) ==
    LET cast(offset) == IF offset.st # "ok" THEN offset ELSE cast_ptr_at(B, offset.val, usz)
    IN  cast(e_lfanew(B))

\* PE::valid_nt_headers: the place of the headers and which of the two
valid_nt_headers(B) ==
    LET valid(headers, is_32) ==
            IF headers.st # "ok" THEN headers
            ELSE IF Field(B, headers.at, 4) # LE(IMAGE_NT_SIGNATURE, 4)
            THEN Threw("InvalidNTSignatureException")
            ELSE [st |-> "ok", at |-> headers.at, is_32 |-> is_32]
        by_magic(magic) ==
            IF magic = LE(IMAGE_NT_OPTIONAL_HDR32_MAGIC, 2)
            THEN valid(nt_headers(B, SizeofNTHeaders32), TRUE)
            ELSE IF magic = LE(IMAGE_NT_OPTIONAL_HDR64_MAGIC, 2)
            THEN valid(nt_headers(B, SizeofNTHeaders64), FALSE)
            ELSE Threw("UnexpectedOptionalMagicException")
        nt_magic(h32) ==
            IF h32.st # "ok" THEN h32 ELSE by_magic(Field(B, h32.at + At_OptionalHeader, 2))
    IN  nt_magic(nt_headers(B, SizeofNTHeaders32))

\* the optional header's SizeOfImage, at the same place in both headers
SizeOfImage(B, nt) == Field(B, nt.at + At_OptionalHeader + At_SizeOfImage, 4)

\* PE::image_base of a disk image with valid headers, a std::uint64_t
image_base(B, nt) ==
    IF nt.is_32 THEN Cast(Field(B, nt.at + At_OptionalHeader + At_ImageBase32, 4), 8)
    ELSE Field(B, nt.at + At_OptionalHeader + At_ImageBase64, 8)

\* PE::arch of an image with valid headers
arch(B, nt) ==
    LET machine == Field(B, nt.at + At_Machine, 2)
    IN  IF machine = LE(IMAGE_FILE_MACHINE_I386, 2) THEN "I386"
        ELSE IF machine = LE(IMAGE_FILE_MACHINE_AMD64, 2) THEN "AMD64"
        ELSE IF machine = LE(IMAGE_FILE_MACHINE_ARM, 2) THEN "ARM"
        ELSE IF machine = LE(IMAGE_FILE_MACHINE_ARM64, 2) THEN "ARM64"
        ELSE "UNSUPPORTED"

\* PE::section_table: the place of the table and the number of its headers
section_table(B) ==
    LET cast(table, number_of_sections) ==
            IF table.st # "ok" THEN table
            ELSE [st |-> "ok", at |-> table.at, size |-> number_of_sections]
        \* throw_if_out_of_bounds<U> asks validate_range(offset, size), the
        \* overload without a type, which counts the size in sizeof(T) = 1
        bounded(offset, number_of_sections) ==
            IF Clip(offset, Len(B)) + number_of_sections > Len(B)
            THEN Threw("OutOfBoundsException")
            ELSE cast(cast_ptr_at(B, offset, SizeofSectionHeader), number_of_sections)
        table(nt) ==
            IF nt.st # "ok" THEN nt
            ELSE bounded(Plus(Plus(Plus(Field(B, At_e_lfanew, 4), LE(4, 4)),
                                   LE(SizeofFileHeader, 4)),
                              Field(B, nt.at + At_SizeOfOptionalHeader, 2)),
                         Decode(Field(B, nt.at + At_NumberOfSections, 2)))
    IN  table(valid_nt_headers(B))

\* the fields of the header index of the section table S
SectionField(B, S, index, at) == Field(B, S.at + index * SizeofSectionHeader + at, 4)

\* SectionHeader::has_offset and SectionHeader::has_rva
has_offset(B, S, index, offset) ==
    /\ AtMost(SectionField(B, S, index, At_PointerToRawData), offset)
    /\ Less(offset, Plus(SectionField(B, S, index, At_PointerToRawData),
                         SectionField(B, S, index, At_SizeOfRawData)))

has_rva_inclusive(B, S, index, rva) ==
    /\ AtMost(SectionField(B, S, index, At_VirtualAddress), rva)
    /\ AtMost(rva, Plus(SectionField(B, S, index, At_VirtualAddress),
                        SectionField(B, S, index, At_VirtualSize)))

has_rva(B, S, index, rva) ==
    /\ AtMost(SectionField(B, S, index, At_VirtualAddress), rva)
    /\ Less(rva, Plus(SectionField(B, S, index, At_VirtualAddress),
                      SectionField(B, S, index, At_VirtualSize)))

\* SectionTable::section_by_offset and SectionTable::section_by_rva: the
\* index of the first header, in table order, that has the address
section_by_offset_last(B, S, offset) ==
    LET last(hits) ==
            IF hits = {} THEN Threw("SectionNotFoundException")
            ELSE [st |-> "ok", index |-> CHOOSE i \in hits : \A j \in hits : j <= i]
    IN  last({i \in 0 .. S.size - 1 : has_offset(B, S, i, offset)})

section_by_offset(B, S, offset) ==
    LET first(hits) ==
            IF hits = {} THEN Threw("SectionNotFoundException")
            ELSE [st |-> "ok", index |-> CHOOSE i \in hits : \A j \in hits : i <= j]
    IN  first({i \in 0 .. S.size - 1 : has_offset(B, S, i, offset)})

section_by_rva(B, S, rva) ==
    LET first(hits) ==
            IF hits = {} THEN Threw("SectionNotFoundException")
            ELSE [st |-> "ok", index |-> CHOOSE i \in hits : \A j \in hits : i <= j]
    IN  first({i \in 0 .. S.size - 1 : has_rva(B, S, i, rva)})


\* PE::validate_address(Offset)
validate_offset(B, offset) == Less(offset, LE(Len(B), 8))

\* PE::validate_address(RVA); an exception of the headers is caught
validate_rva(B, rva) ==
    LET below(nt) == nt.st = "ok" /\ Less(rva, SizeOfImage(B, nt))
    IN  below(valid_nt_headers(B))

\* a VA is the tagged VA32 or VA64; operator* widens it to 64 bits
VA32(value) == [is_32 |-> TRUE, value |-> Cast(value, 4)]
VA64(value) == [is_32 |-> FALSE, value |-> Cast(value, 8)]

\* PE::validate_address(VA): "true", "false", or "SIGSEGV".  For 64-bit
\* headers image_size is read through nt_headers.get_32(), the null
\* pointer any_cast returns for the other alternative, dereferenced: ub is
\* what that does, "SIGSEGV", or a read that yields "zero" or "ones"
validate_va(B, va, ub) ==
    LET within(start, image_size) ==
            IF AtMost(start, va.value) /\ Less(va.value, Plus(start, image_size))
            THEN "true" ELSE "false"
        validate(nt) ==
            IF nt.st # "ok" THEN "false"
            ELSE IF nt.is_32 THEN within(image_base(B, nt), Cast(SizeOfImage(B, nt), 8))
            ELSE IF ub = "SIGSEGV" THEN "SIGSEGV"
            ELSE IF ub = "zero" THEN within(image_base(B, nt), LE(0, 8))
            ELSE within(image_base(B, nt), Cast(Ones32, 8))
    IN  validate(valid_nt_headers(B))

\* PE::offset_to_rva
offset_to_rva(B, offset) ==
    LET translated(S, index, rva) ==
            IF ~validate_rva(B, rva) \/ ~has_rva(B, S, index, rva)
            THEN Threw("InvalidRVAException")
            ELSE [st |-> "ok", val |-> rva]
        found(S, section) ==
            IF section.st # "ok"
            THEN IF ~validate_rva(B, offset) THEN Threw("InvalidRVAException")
                 ELSE [st |-> "ok", val |-> offset]
            ELSE translated(S, section.index,
                            Plus(Minus(offset, SectionField(B, S, section.index,
                                                            At_PointerToRawData)),
                                 SectionField(B, S, section.index, At_VirtualAddress)))
        table(S) == IF S.st # "ok" THEN S ELSE found(S, section_by_offset(B, S, offset))
    IN  IF ~validate_offset(B, offset) THEN Threw("InvalidOffsetException")
        ELSE table(section_table(B))

\* PE::rva_to_offset
rva_to_offset(B, rva) ==
    LET translated(S, index, offset) ==
            IF ~validate_offset(B, offset) \/ ~has_offset(B, S, index, offset)
            THEN Threw("InvalidOffsetException")
            ELSE [st |-> "ok", val |-> offset]
        found(S, section) ==
            IF section.st # "ok"
            THEN IF ~validate_offset(B, rva) THEN Threw("InvalidOffsetException")
                 ELSE [st |-> "ok", val |-> rva]
            ELSE translated(S, section.index,
                            Plus(Minus(rva, SectionField(B, S, section.index,
                                                         At_VirtualAddress)),
                                 SectionField(B, S, section.index, At_PointerToRawData)))
        table(S) == IF S.st # "ok" THEN S ELSE found(S, section_by_rva(B, S, rva))
    IN  IF ~validate_rva(B, rva) THEN Threw("InvalidRVAException")
        ELSE table(section_table(B))

\* PE::rva_to_va
rva_to_va(B, rva, ub) ==
    LET valid(va, v) ==
            IF v = "SIGSEGV" THEN Threw("SIGSEGV")
            ELSE IF v = "false" THEN Threw("InvalidVAException")
            ELSE [st |-> "ok", val |-> va]
        validated(va) == valid(va, validate_va(B, va, ub))
        convert(image_base_, arch_) ==
            IF arch_ = "UNSUPPORTED" THEN Threw("UnsupportedArchitectureException")
            ELSE IF arch_ \in {"I386", "ARM"}
            THEN validated(VA32(Plus(rva, Cast(image_base_, 4))))
            ELSE validated(VA64(Plus(Cast(rva, 8), image_base_)))
        headers(nt) == convert(image_base(B, nt), arch(B, nt))
    IN  IF ~validate_rva(B, rva) THEN Threw("InvalidRVAException")
        ELSE headers(valid_nt_headers(B))

\* PE::va_to_rva
va_to_rva(B, va, ub) ==
    LET validated(rva) ==
            IF ~validate_rva(B, rva) THEN Threw("InvalidRVAException")
            ELSE [st |-> "ok", val |-> rva]
        valid(v) ==
            IF v = "SIGSEGV" THEN Threw("SIGSEGV")
            ELSE IF v = "false" THEN Threw("InvalidVAException")
            ELSE validated(Cast(Minus(Cast(va.value, 8),
                                      image_base(B, valid_nt_headers(B))), 4))
    IN  valid(validate_va(B, va, ub))

\* PE::offset_to_va and PE::va_to_offset
offset_to_va(B, offset, ub) ==
    LET convert(rva) == IF rva.st # "ok" THEN rva ELSE rva_to_va(B, rva.val, ub)
    IN  IF ~validate_offset(B, offset) THEN Threw("InvalidOffsetException")
        ELSE convert(offset_to_rva(B, offset))

va_to_offset(B, va, ub) ==
    LET convert(rva) == IF rva.st # "ok" THEN rva ELSE rva_to_offset(B, rva.val)
    IN  convert(va_to_rva(B, va, ub))

\* one round of the loop of PE::calculate_checksum: the 64-bit checksum
\* after the dword value is added with the carry brought around
add_dword(checksum, value) ==
    LET fold(sum) ==
            IF Less(Ones32, sum) THEN Plus(Cast(Cast(sum, 4), 8), SubSeq(sum, 5, 8)) ELSE sum
    IN  fold(Plus(Plus(Cast(Cast(checksum, 4), 8), value), SubSeq(checksum, 5, 8)))

\* the dword read at offset, padded with zeros behind the end of the file
dword_at(B, offset) == Cast(SubSeq(B, offset + 1, Len(B)), 4)

RECURSIVE sum_dwords(_, _, _, _)
\* the loop of PE::calculate_checksum from offset on: every dword but the
\* one at checksum_offset (the comparison with <<>> has the checksum of the
\* round before evaluated before the next round starts)
sum_dwords(B, checksum_offset, offset, checksum) ==
    IF offset >= Len(B) \/ checksum = <<>> THEN checksum
    ELSE sum_dwords(B, checksum_offset, offset + 4,
                    IF offset = checksum_offset THEN checksum
                    ELSE add_dword(checksum, dword_at(B, offset)))

\* PE::calculate_checksum
calculate_checksum(B) ==
    LET low(folded) == (folded + folded \div 65536) % 65536
        fold(checksum) ==
            [st |-> "ok",
             val |-> LE(low(Decode(SubSeq(checksum, 1, 2)) + Decode(SubSeq(checksum, 3, 8)))
                            + Len(B), 4)]
        sum(nt) ==
            IF nt.st # "ok" THEN nt
            ELSE fold(sum_dwords(B, nt.at + At_OptionalHeader + At_CheckSum, 0, LE(0, 8)))
    IN  sum(valid_nt_headers(B))

\* PE::validate_checksum
validate_checksum(B) ==
    LET compare(nt) ==
            IF nt.st # "ok" THEN nt
            ELSE [st |-> "ok",
                  val |-> Field(B, nt.at + At_OptionalHeader + At_CheckSum, 4)
                              = calculate_checksum(B).val]
    IN  compare(valid_nt_headers(B))

\* the mutation: the header is written to the first entry of the table
add_section_first(B, section) ==
    LET stored(counted, S) ==
            IF S.st # "ok" THEN [st |-> S.st, B |-> counted, behind |-> <<>>]
            ELSE [st |-> "ok", B |-> Poke(counted, S.at, section), index |-> S.size - 1,
                  behind |-> Behind(counted, S.at, section)]
        table(counted) == stored(counted, section_table(counted))
        count(nt, number) ==
            IF number = <<255, 255>>
            THEN [st |-> "SectionTableOverflowException", B |-> B, behind |-> <<>>]
            ELSE table(Poke(B, nt.at + At_NumberOfSections, Plus(number, LE(1, 2))))
        headers(nt) ==
            IF nt.st # "ok" THEN [st |-> nt.st, B |-> B, behind |-> <<>>]
            ELSE count(nt, Field(B, nt.at + At_NumberOfSections, 2))
    IN  headers(valid_nt_headers(B))

\* PE::add_section: the outcome, the image as the call leaves it and the
\* index of the header returned; NumberOfSections is incremented in the
\* image before section_table() looks for the room of the longer table.
\* SectionHeader::write checks the header against its own 40 bytes, not
\* against the image: behind holds the bytes std::memcpy puts behind the
\* end of the image when the last entry of the table is not inside it
add_section(B, section) ==
    LET stored(counted, S) ==
            IF S.st # "ok" THEN [st |-> S.st, B |-> counted, behind |-> <<>>]
            ELSE [st |-> "ok",
                  B |-> Poke(counted, S.at + (S.size - 1) * SizeofSectionHeader, section),
                  index |-> S.size - 1,
                  behind |-> Behind(counted, S.at + (S.size - 1) * SizeofSectionHeader,
                                    section)]
        table(counted) == stored(counted, section_table(counted))
        count(nt, number) ==
            IF number = <<255, 255>>
            THEN [st |-> "SectionTableOverflowException", B |-> B, behind |-> <<>>]
            ELSE table(Poke(B, nt.at + At_NumberOfSections, Plus(number, LE(1, 2))))
        headers(nt) ==
            IF nt.st # "ok" THEN [st |-> nt.st, B |-> B, behind |-> <<>>]
            ELSE count(nt, Field(B, nt.at + At_NumberOfSections, 2))
    IN  headers(valid_nt_headers(B))

At_NumberOfRvaAndSizes32 == 92
At_NumberOfRvaAndSizes64 == 108
At_DataDirectory32 == 96
At_DataDirectory64 == 112
SizeofDataDirectory == 8
At_Size == 4
IMAGE_NUMBEROF_DIRECTORY_ENTRIES == 16
SizeofExportDirectory == 40

\* OptionalHeader::data_directory_size: NumberOfRvaAndSizes, 16 at most
data_directory_size(B, nt) ==
    LET clamp(sizes) ==
            IF Less(LE(IMAGE_NUMBEROF_DIRECTORY_ENTRIES, 4), sizes)
            THEN IMAGE_NUMBEROF_DIRECTORY_ENTRIES
            ELSE Decode(Cast(sizes, 1))
    IN  clamp(Field(B, nt.at + At_OptionalHeader
                            + (IF nt.is_32 THEN At_NumberOfRvaAndSizes32
                               ELSE At_NumberOfRvaAndSizes64), 4))

\* the field at of the slot directory of the data directory
SlotField(B, nt, directory, at) ==
    Field(B, nt.at + At_OptionalHeader
                 + (IF nt.is_32 THEN At_DataDirectory32 ELSE At_DataDirectory64)
                 + directory * SizeofDataDirectory + at, 4)

\* the mutation: a slot with VirtualAddress 0 and Size 0 is no directory
has_directory_populated(B, nt, directory) ==
    /\ directory < data_directory_size(B, nt)
    /\ ~(SlotField(B, nt, directory, 0) = LE(0, 4) /\ SlotField(B, nt, directory, At_Size) = LE(0, 4))
    /\ validate_rva(B, SlotField(B, nt, directory, 0))

\* DataDirectory::has_directory
has_directory(B, nt, directory) ==
    IF directory >= data_directory_size(B, nt) THEN FALSE
    ELSE validate_rva(B, SlotField(B, nt, directory, 0))

\* PE::data_directory and DataDirectory::directory<T> for a T of
\* DirectoryIndex index that is an ArchContainer of two fixed-size types
\* over IMAGE_EXPORT_DIRECTORY: where the view returned is, and which of the
\* two types it has
directory(B, index) ==
    LET view(at, is_32) ==
            IF at.st # "ok" THEN at ELSE [st |-> "ok", at |-> at.at, is_32 |-> is_32]
        as_ptr(offset, is_32) ==
            IF offset.st # "ok" THEN offset
            ELSE view(cast_ptr_at(B, offset.val, SizeofExportDirectory), is_32)
        by_arch(nt, arch_) ==
            IF arch_ = "UNSUPPORTED" THEN Threw("UnsupportedArchitectureException")
            ELSE as_ptr(rva_to_offset(B, SlotField(B, nt, index, 0)), arch_ \in {"I386", "ARM"})
        headers(nt) ==
            IF nt.st # "ok" THEN nt
            ELSE IF ~has_directory(B, nt, index) THEN Threw("DirectoryUnavailableException")
            ELSE by_arch(nt, arch(B, nt))
    IN  headers(valid_nt_headers(B))

\* Memory<std::uint8_t>::load_file of a file with the bytes file: the
\* vector u8_data is made with filesize zeros and the bytes of the file are
\* inserted at its begin; the region is allocated with the size of the
\* vector and the vector is written to it.  The vector of an empty file has
\* data() == nullptr, which Memory(pointer, size) refuses
load_file(file) ==
    LET region(u8_data) ==
            IF u8_data = <<>> THEN Threw("NullPointerException")
            ELSE [st |-> "ok", B |-> u8_data]
    IN  region(file \o [i \in 1 .. Len(file) |-> 0])

RECURSIVE text_mode(_)
\* what a stream that was not opened with std::ios::binary writes for the
\* bytes on a platform that translates the end of a line
text_mode(bytes) ==
    IF bytes = <<>> THEN <<>>
    ELSE (IF Head(bytes) = 10 THEN <<13, 10>> ELSE <<Head(bytes)>>) \o text_mode(Tail(bytes))

\* Memory::save: the bytes of the file written, on a platform without or
\* with the translation
save(B, platform) ==
    IF B = <<>> THEN Threw("NullPointerException")
    ELSE [st |-> "ok", file |-> IF platform = "windows" THEN text_mode(B) ELSE B]

\* the loop of PE::cstring_at: the index the scan from end stops at, a zero
\* byte or the size of the image
RECURSIVE string_end(_, _)
string_end(B, end) ==
    IF end + 1 <= Len(B) /\ B[end + 1] # 0 THEN string_end(B, end + 1) ELSE end

\* PE::cstring_at: the view subsection<char>(begin, end + 1) returns
cstring_at(B, memory_offset) ==
    subsection_view([null |-> FALSE, esz |-> 1, bytes |-> B], 1, memory_offset,
                    string_end(B, memory_offset) + 1)

(***************************************************************************)
(* SpecAddr: the address conversions of a PE.  An image and an address x   *)
(* are drawn in Init together with a path, the conversions to apply one    *)
(* after the other; res holds the outcome of the last one applied, the     *)
(* address it returned and the number n of conversions applied so far.     *)
(* The images are laid out by Image: a DOS header, the NT headers at       *)
(* lfanew, the section table behind them, zeros up to len bytes.           *)
(***************************************************************************)
ImageLen == 432
Lfanew == SizeofDOSHeader

RECURSIVE PokeSections(_, _, _)
PokeSections(B, at, sections) ==
    IF sections = <<>> THEN B
    ELSE PokeSections(
             Poke(Poke(Poke(Poke(B, at + At_VirtualSize, Head(sections).vsize),
                            at + At_VirtualAddress, Head(sections).va),
                       at + At_SizeOfRawData, Head(sections).rsize),
                  at + At_PointerToRawData, Head(sections).raw),
             at + SizeofSectionHeader, Tail(sections))

Image(lfanew, is_32, machine, base, size_of_image, sections, len) ==
    LET opt == lfanew + At_OptionalHeader
        size_of_optional == (IF is_32 THEN SizeofNTHeaders32 ELSE SizeofNTHeaders64)
                                - At_OptionalHeader
        dos == Poke(Poke([i \in 1 .. len |-> 0], 0, LE(IMAGE_DOS_SIGNATURE, 2)),
                    At_e_lfanew, LE(lfanew, 4))
        file == Poke(Poke(Poke(Poke(dos, lfanew, LE(IMAGE_NT_SIGNATURE, 4)),
                               lfanew + At_Machine, LE(machine, 2)),
                          lfanew + At_NumberOfSections, LE(Len(sections), 2)),
                     lfanew + At_SizeOfOptionalHeader, LE(size_of_optional, 2))
        optional ==
            Poke(Poke(Poke(file, opt,
                           LE(IF is_32 THEN IMAGE_NT_OPTIONAL_HDR32_MAGIC
                              ELSE IMAGE_NT_OPTIONAL_HDR64_MAGIC, 2)),
                      opt + (IF is_32 THEN At_ImageBase32 ELSE At_ImageBase64),
                      IF is_32 THEN Cast(base, 4) ELSE base),
                 opt + At_SizeOfImage, size_of_image)
    IN  PokeSections(optional, opt + size_of_optional, sections)

Section(va, vsize, raw, rsize) == [va |-> va, vsize |-> vsize, raw |-> raw, rsize |-> rsize]

\* a section; one with more raw bytes than virtual ones, behind it; one
\* overlapping the first, with more virtual bytes than raw ones; one whose
\* virtual range wraps; one that straddles the end of the image
SectionChoices ==
    {Section(LE(4096, 4), LE(8, 4), LE(416, 4), LE(8, 4)),
     Section(LE(4104, 4), LE(4, 4), LE(424, 4), LE(8, 4)),
     Section(LE(4100, 4), LE(8, 4), LE(420, 4), LE(4, 4)),
     Section(Minus(Ones32, LE(3, 4)), LE(8, 4), LE(416, 4), LE(8, 4)),
     Section(LE(8190, 4), LE(4, 4), LE(428, 4), LE(4, 4))}

MaxSections == 2
Tables == SeqsUpTo(SectionChoices, MaxSections)
ImageSizes == {LE(8192, 4), Ones32}

\* image bases: 0x400000, 0xFFFFF000, 0x140000000, 0xFFFFFFFFFFFFF000
ImageBases ==
    {<<0, 0, 64, 0, 0, 0, 0, 0>>, <<0, 240, 255, 255, 0, 0, 0, 0>>,
     <<0, 0, 0, 64, 1, 0, 0, 0>>, <<0, 240, 255, 255, 255, 255, 255, 255>>}

Machines == {IMAGE_FILE_MACHINE_I386, IMAGE_FILE_MACHINE_ARM, IMAGE_FILE_MACHINE_AMD64,
             IMAGE_FILE_MACHINE_ARM64, 0}

\* images for the conversions between offsets and RVAs
SectionImages ==
    {Image(Lfanew, is_32, IF is_32 THEN IMAGE_FILE_MACHINE_I386 ELSE IMAGE_FILE_MACHINE_AMD64,
           <<0, 0, 64, 0, 0, 0, 0, 0>>, size, sections, ImageLen) :
        is_32 \in BOOLEAN, size \in ImageSizes, sections \in Tables}

\* images for the conversions between RVAs and VAs
BaseImages ==
    {Image(Lfanew, is_32, machine, base, LE(8192, 4),
           <<Section(LE(4096, 4), LE(8, 4), LE(416, 4), LE(8, 4))>>, ImageLen) :
        is_32 \in BOOLEAN, machine \in Machines, base \in ImageBases}

\* images that are no PE: no MZ, no PE signature, an optional magic that is
\* neither of the two, NT headers past the end, a file cut short
BrokenImages ==
    LET good == Image(Lfanew, TRUE, IMAGE_FILE_MACHINE_I386, <<0, 0, 64, 0, 0, 0, 0, 0>>,
                      LE(8192, 4), <<Section(LE(4096, 4), LE(8, 4), LE(416, 4), LE(8, 4))>>,
                      ImageLen)
    IN  {Poke(good, 0, <<0>>), Poke(good, Lfanew, <<0>>),
         Poke(good, Lfanew + At_OptionalHeader, <<0>>),
         Poke(good, At_e_lfanew, Ones32), SubSeq(good, 1, Lfanew)}

Offsets == {LE(n, 4) : n \in {0, 415, 416, 419, 420, 423, 424, 427, 428, 431, 432}} \cup {Ones32}
RVAs == {LE(n, 4) : n \in {0, 4096, 4099, 4100, 4103, 4104, 4107, 4108, 8190, 8191, 8192}}
            \cup {Minus(Ones32, LE(2, 4))}
VAs(base) ==
    {VA64(Plus(base, LE(n, 8))) : n \in {0, 4096, 8191, 8192}}
        \cup {VA32(Plus(base, LE(n, 8))) : n \in {0, 4096, 8191, 8192}}
        \cup {VA64(Minus(base, LE(1, 8)))}

\* an address held in the state: an Offset or an RVA, or a VA
U32(value) == [u32 |-> value]
Va(va) == [va |-> va]

Query(B, path, x) == [fn |-> "convert", B |-> B, path |-> path, x |-> x]

AddrInputs ==
    {Query(B, <<"offset_to_rva", "rva_to_offset">>, x) :
        B \in SectionImages \cup BrokenImages, x \in {U32(o) : o \in Offsets}}
    \cup {Query(B, <<"rva_to_offset", "offset_to_rva">>, x) :
             B \in SectionImages \cup BrokenImages, x \in {U32(r) : r \in RVAs}}
    \cup {Query(B, <<"rva_to_va", "va_to_rva">>, x) :
             B \in BaseImages \cup BrokenImages, x \in {U32(LE(n, 4)) : n \in {0, 4096, 8191, 8192}}}
    \cup {Query(B, <<"offset_to_va", "va_to_offset">>, x) :
             B \in BaseImages \cup BrokenImages, x \in {U32(LE(n, 4)) : n \in {0, 416, 423, 432}}}
    \cup UNION {{Query(B, path, x) :
                    path \in {<<"va_to_rva", "rva_to_va">>, <<"va_to_offset", "offset_to_va">>},
                    x \in {Va(va) : va \in VAs(image_base(B, valid_nt_headers(B)))}} : B \in BaseImages}
    \cup {Query(B, <<"va_to_rva">>, Va(VA32(LE(4096, 4)))) : B \in BrokenImages}
    \cup {Query(B, <<"section_by_offset">>, U32(x)) :
             B \in SectionImages \cup BrokenImages, x \in Offsets}
    \cup {Query(B, <<"section_by_rva">>, U32(x)) :
             B \in SectionImages \cup BrokenImages, x \in RVAs}

InitAddr ==
    /\ mm = NewManager
    /\ mems = EmptyBag
    /\ made = 0
    /\ arg \in AddrInputs
    /\ res = [st |-> "none", n |-> 0, val |-> arg.x]
    /\ stk = <<>>
    /\ mutex = 0

\* the conversion fn is the next one of the path and yields r
Convert(fn, r) ==
    /\ arg.fn = "convert"
    /\ res.st \in {"none", "ok"}
    /\ res.n < Len(arg.path)
    /\ arg.path[res.n + 1] = fn
    /\ res' = [st |-> r.st, n |-> res.n + 1, val |-> r.val]
    /\ UNCHANGED <<memVars, arg, mxVars>>

\* the outcome r of a conversion with the address it returned, U32 or Va
\* by wrap, or with the address it was applied to when it failed
Returned(r, wrap) ==
    [st |-> r.st, val |-> IF r.st # "ok" THEN res.val
                          ELSE IF wrap = "va" THEN Va(r.val) ELSE U32(r.val)]

OffsetToRva ==
    /\ arg.fn = "convert" /\ res.n < Len(arg.path) /\ arg.path[res.n + 1] = "offset_to_rva"
    /\ Convert("offset_to_rva", Returned(offset_to_rva(arg.B, res.val.u32), "u32"))
RvaToOffset ==
    /\ arg.fn = "convert" /\ res.n < Len(arg.path) /\ arg.path[res.n + 1] = "rva_to_offset"
    /\ Convert("rva_to_offset", Returned(rva_to_offset(arg.B, res.val.u32), "u32"))
RvaToVa(ub) ==
    /\ arg.fn = "convert" /\ res.n < Len(arg.path) /\ arg.path[res.n + 1] = "rva_to_va"
    /\ Convert("rva_to_va", Returned(rva_to_va(arg.B, res.val.u32, ub), "va"))
VaToRva(ub) ==
    /\ arg.fn = "convert" /\ res.n < Len(arg.path) /\ arg.path[res.n + 1] = "va_to_rva"
    /\ Convert("va_to_rva", Returned(va_to_rva(arg.B, res.val.va, ub), "u32"))
OffsetToVa(ub) ==
    /\ arg.fn = "convert" /\ res.n < Len(arg.path) /\ arg.path[res.n + 1] = "offset_to_va"
    /\ Convert("offset_to_va", Returned(offset_to_va(arg.B, res.val.u32, ub), "va"))
VaToOffset(ub) ==
    /\ arg.fn = "convert" /\ res.n < Len(arg.path) /\ arg.path[res.n + 1] = "va_to_offset"
    /\ Convert("va_to_offset", Returned(va_to_offset(arg.B, res.val.va, ub), "u32"))

\* the section a lookup in the section table of the image found, by its index
Found(r) == [st |-> r.st, val |-> IF r.st # "ok" THEN res.val ELSE [index |-> r.index]]

Lookup(S, section) == IF S.st # "ok" THEN S ELSE section

SectionByOffset ==
    /\ arg.fn = "convert" /\ res.n < Len(arg.path) /\ arg.path[res.n + 1] = "section_by_offset"
    /\ Convert("section_by_offset",
               Found(Lookup(section_table(arg.B),
                            section_by_offset(arg.B, section_table(arg.B), res.val.u32))))
SectionByRva ==
    /\ arg.fn = "convert" /\ res.n < Len(arg.path) /\ arg.path[res.n + 1] = "section_by_rva"
    /\ Convert("section_by_rva",
               Found(Lookup(section_table(arg.B),
                            section_by_rva(arg.B, section_table(arg.B), res.val.u32))))

NextAddr ==
    \/ SectionByOffset
    \/ SectionByRva
    \/ OffsetToRva
    \/ RvaToOffset
    \/ \E ub \in {"SIGSEGV", "zero", "ones"} : RvaToVa(ub)
    \/ \E ub \in {"SIGSEGV", "zero", "ones"} : VaToRva(ub)
    \/ \E ub \in {"SIGSEGV", "zero", "ones"} : OffsetToVa(ub)
    \/ \E ub \in {"SIGSEGV", "zero", "ones"} : VaToOffset(ub)

SpecAddr == InitAddr /\ [][NextAddr]_vars

(***************************************************************************)
(* SpecImage: the operations on the headers of a PE.  An image is drawn in *)
(* Init with the operation to apply, or the operations to apply one after  *)
(* the other; res holds the image B as the operations left it, the outcome *)
(* of the last one, what it returned and the number n of operations.       *)
(***************************************************************************)
\* where the NT headers of the images start: behind the DOS header, on a
\* dword or off it
Lfanews == {SizeofDOSHeader + d : d \in 0 .. 5}
Slack == 3

\* the last bytes of the file written over: dwords of ones, then 1, 2, 3
Filled(B) ==
    Poke(Poke(B, Len(B) - 11, [i \in 1 .. 8 |-> 255]), Len(B) - 3, <<1, 2, 3>>)

SumImages ==
    {Filled(Poke(Image(lfanew, is_32,
                       IF is_32 THEN IMAGE_FILE_MACHINE_I386 ELSE IMAGE_FILE_MACHINE_AMD64,
                       <<0, 0, 64, 0, 0, 0, 0, 0>>, LE(8192, 4),
                       <<Section(LE(4096, 4), LE(8, 4), LE(416, 4), LE(8, 4))>>,
                       ImageLen + extra),
                 lfanew + At_OptionalHeader + At_CheckSum, stored)) :
        lfanew \in Lfanews, is_32 \in BOOLEAN, extra \in 0 .. Slack,
        stored \in {LE(0, 4), <<239, 190, 173, 222>>}}

\* images to add a section to: with no, one or two sections, with a
\* NumberOfSections of 0xFFFF or 0xFFFE, with no optional header before the
\* section table, with no room for a section header
AddImages ==
    LET plain == {Image(Lfanew, is_32,
                        IF is_32 THEN IMAGE_FILE_MACHINE_I386 ELSE IMAGE_FILE_MACHINE_AMD64,
                        <<0, 0, 64, 0, 0, 0, 0, 0>>, LE(8192, 4), sections, ImageLen) :
                     is_32 \in BOOLEAN,
                     sections \in SeqsUpTo({Section(LE(4096, 4), LE(8, 4), LE(416, 4), LE(8, 4)),
                                            Section(LE(4104, 4), LE(4, 4), LE(424, 4), LE(8, 4))},
                                           MaxSections)}
        \* files that end behind the headers, or in the first section header
        cut == {SubSeq(Image(Lfanew, is_32,
                             IF is_32 THEN IMAGE_FILE_MACHINE_I386
                             ELSE IMAGE_FILE_MACHINE_AMD64,
                             <<0, 0, 64, 0, 0, 0, 0, 0>>, LE(8192, 4), <<>>, ImageLen),
                       1, Lfanew + (IF is_32 THEN SizeofNTHeaders32 ELSE SizeofNTHeaders64)
                              + room) :
                   is_32 \in BOOLEAN, room \in {0, 1, SizeofSectionHeader - 1}}
    IN  plain
        \cup {Poke(B, Lfanew + At_NumberOfSections, <<255, 255>>) : B \in plain}
        \cup {Poke(B, Lfanew + At_NumberOfSections, <<254, 255>>) : B \in plain}
        \cup {Poke(B, Lfanew + At_SizeOfOptionalHeader, <<0, 0>>) : B \in plain}
        \cup cut

\* images to take the section table of: those, and those with a
\* NumberOfSections that the bytes behind the headers have no room for
TableImages ==
    AddImages \cup {Poke(B, Lfanew + At_NumberOfSections, LE(n, 2)) :
                       B \in AddImages, n \in {3, 4, 100}}

\* section headers to add: a name, with the four fields of Section behind it
NewSections ==
    {Poke(PokeSections([i \in 1 .. SizeofSectionHeader |-> 0], 0, <<section>>),
          0, <<46, 110, 101, 119>>) :
        section \in {Section(LE(4108, 4), LE(4, 4), LE(428, 4), LE(4, 4)),
                     Section(Ones32, Ones32, Ones32, Ones32)}}

\* images with a data directory: NumberOfRvaAndSizes below, at and above 16,
\* the first two slots and the last empty, populated, or with an RVA behind
\* the image
Slots == {<<LE(0, 4), LE(0, 4)>>, <<LE(4096, 4), LE(8, 4)>>, <<LE(8192, 4), LE(8, 4)>>}
DirIndexes == {0, 1, IMAGE_NUMBEROF_DIRECTORY_ENTRIES - 1}

DirImages ==
    {Poke(Poke(Poke(Image(Lfanew, is_32, machine, <<0, 0, 64, 0, 0, 0, 0, 0>>, LE(8192, 4),
                          <<Section(LE(4096, 4), LE(8, 4), LE(320, 4), LE(64, 4))>>, ImageLen),
                    Lfanew + At_OptionalHeader
                        + (IF is_32 THEN At_NumberOfRvaAndSizes32 ELSE At_NumberOfRvaAndSizes64),
                    LE(sizes, 4)),
               Lfanew + At_OptionalHeader
                   + (IF is_32 THEN At_DataDirectory32 ELSE At_DataDirectory64)
                   + index * SizeofDataDirectory,
               slot[1]),
          Lfanew + At_OptionalHeader
              + (IF is_32 THEN At_DataDirectory32 ELSE At_DataDirectory64)
              + index * SizeofDataDirectory + At_Size,
          slot[2]) :
        is_32 \in BOOLEAN, machine \in {IMAGE_FILE_MACHINE_I386, IMAGE_FILE_MACHINE_AMD64, 0},
        sizes \in {0, 1, IMAGE_NUMBEROF_DIRECTORY_ENTRIES, 2 * IMAGE_NUMBEROF_DIRECTORY_ENTRIES},
        index \in DirIndexes, slot \in Slots}

\* files to load: up to MaxFileLen bytes, an end of line among them
MaxFileLen == 3
Files == SeqsUpTo({0, 10, 65, 255}, MaxFileLen)

\* buffers with strings in them: letters and zero bytes
MaxStringLen == 4
StringImages == SeqsUpTo({0, 65}, MaxStringLen) \ {<<>>}

ImageInputs ==
    {[fn |-> "image", B |-> <<>>, path |-> <<"load_file", "save">>, file |-> file] :
        file \in Files}
    \cup
    {[fn |-> "image", B |-> B, path |-> <<"directory">>, directory |-> index] :
        B \in DirImages \cup BrokenImages, index \in DirIndexes}
    \cup
    {[fn |-> "image", B |-> B,
      path |-> <<"calculate_checksum", "set_checksum", "validate_checksum">>] :
        B \in SumImages \cup BrokenImages}
    \cup {[fn |-> "image", B |-> B, path |-> <<"add_section">>, section |-> section] :
             B \in AddImages \cup BrokenImages, section \in NewSections}
    \cup {[fn |-> "image", B |-> B, path |-> <<"section_table">>] :
             B \in TableImages \cup BrokenImages}
    \cup {[fn |-> "image", B |-> B, path |-> <<"cstring_at">>, memory_offset |-> o] :
             B \in StringImages, o \in 0 .. MaxStringLen}

InitImage ==
    /\ mm = NewManager
    /\ mems = EmptyBag
    /\ made = 0
    /\ arg \in ImageInputs
    /\ res = [st |-> "none", n |-> 0, B |-> arg.B, val |-> <<>>, behind |-> <<>>]
    /\ stk = <<>>
    /\ mutex = 0

\* the operation fn is the next one of the path
Due(fn) ==
    /\ arg.fn = "image"
    /\ res.st \in {"none", "ok"}
    /\ res.n < Len(arg.path)
    /\ arg.path[res.n + 1] = fn

CalculateChecksum ==
    /\ Due("calculate_checksum")
    /\ \E r \in {calculate_checksum(res.B)} :
           res' = [res EXCEPT !.st = r.st, !.n = @ + 1,
                              !.val = IF r.st = "ok" THEN r.val ELSE <<>>]
    /\ UNCHANGED <<memVars, arg, mxVars>>

\* nt_headers->OptionalHeader.CheckSum = the checksum calculated
SetCheckSum ==
    /\ Due("set_checksum")
    /\ res' = [res EXCEPT !.n = @ + 1,
                          !.B = Poke(@, valid_nt_headers(@).at + At_OptionalHeader + At_CheckSum,
                                     res.val)]
    /\ UNCHANGED <<memVars, arg, mxVars>>

ValidateChecksum ==
    /\ Due("validate_checksum")
    /\ \E r \in {validate_checksum(res.B)} :
           res' = [res EXCEPT !.st = r.st, !.n = @ + 1,
                              !.val = IF r.st = "ok" THEN <<r.val>> ELSE <<>>]
    /\ UNCHANGED <<memVars, arg, mxVars>>

CStringAt ==
    /\ Due("cstring_at")
    /\ \E r \in {cstring_at(res.B, arg.memory_offset)} :
           res' = [res EXCEPT !.st = r.st, !.n = @ + 1,
                              !.val = IF r.st = "ok" THEN <<r.off, r.len>> ELSE <<>>]
    /\ UNCHANGED <<memVars, arg, mxVars>>

SectionTable ==
    /\ Due("section_table")
    /\ \E r \in {section_table(res.B)} :
           res' = [res EXCEPT !.st = r.st, !.n = @ + 1,
                              !.val = IF r.st = "ok" THEN <<r.at, r.size>> ELSE <<>>]
    /\ UNCHANGED <<memVars, arg, mxVars>>

AddSection ==
    /\ Due("add_section")
    /\ \E r \in {add_section(res.B, arg.section)} :
           \E st \in (IF r.behind = <<>> THEN {r.st} ELSE {"ok", "SIGSEGV"}) :
               res' = [res EXCEPT !.st = st, !.n = @ + 1, !.B = r.B, !.behind = r.behind,
                                  !.val = IF st = "ok" THEN <<r.index>> ELSE <<>>]
    /\ UNCHANGED <<memVars, arg, mxVars>>

Directory ==
    /\ Due("directory")
    /\ \E r \in {directory(res.B, arg.directory)} :
           res' = [res EXCEPT !.st = r.st, !.n = @ + 1,
                              !.val = IF r.st = "ok" THEN <<r.at, r.is_32>> ELSE <<>>]
    /\ UNCHANGED <<memVars, arg, mxVars>>

LoadFile ==
    /\ Due("load_file")
    /\ \E r \in {load_file(arg.file)} :
           res' = [res EXCEPT !.st = r.st, !.n = @ + 1,
                              !.B = IF r.st = "ok" THEN r.B ELSE @]
    /\ UNCHANGED <<memVars, arg, mxVars>>

Save(platform) ==
    /\ Due("save")
    /\ \E r \in {save(res.B, platform)} :
           res' = [res EXCEPT !.st = r.st, !.n = @ + 1,
                              !.val = IF r.st = "ok" THEN r.file ELSE <<>>]
    /\ UNCHANGED <<memVars, arg, mxVars>>

NextImage ==
    \/ LoadFile
    \/ \E platform \in {"posix", "windows"} : Save(platform)
    \/ Directory
    \/ CStringAt
    \/ SectionTable
    \/ AddSection
    \/ CalculateChecksum
    \/ SetCheckSum
    \/ ValidateChecksum

SpecImage == InitImage /\ [][NextImage]_vars

(***************************************************************************)
(* SpecMx: threads calling the tracker.  stk[t] is the call stack of       *)
(* thread t, innermost call last; a frame holds the call's arguments and   *)
(* locals and pc, the statement the call is at:                            *)
(*   "lock"      about to execute mutex.lock(); next is the pc after it    *)
(*   "is_valid"  about to read refcount in is_valid                        *)
(*   "ref", "count", "deref", "relationship", "invalidate", "children",    *)
(*   "each"      about to execute the statements that read and write the   *)
(*               maps in the function of that name                         *)
(*   "tail"      after the unlock of deref                                 *)
(* mutex is the thread that holds MemoryManager::mutex, or 0.  An          *)
(* exception (std::out_of_range of a map's at()) unwinds the thread's      *)
(* stack; nothing unlocks the mutex then.                                  *)
(***************************************************************************)
MaxCalls == 4
Threads == {1, 2}
MxKeys == {<<1, 2>>, <<1, 1>>}

Frame(op, key, pc, next) ==
    [op |-> op, key |-> key, pc |-> pc, next |-> next, child |-> key,
     value |-> 0, derefed_parent |-> FALSE, child_keys |-> <<>>]

Top(t) == stk[t][Len(stk[t])]
At(t, pc) == stk[t] # <<>> /\ Top(t).pc = pc
Return(t) == [stk EXCEPT ![t] = SubSeq(@, 1, Len(@) - 1)]
Goto(t, frame) == [stk EXCEPT ![t] = [@ EXCEPT ![Len(@)] = frame]]
Call(t, frame, callee) == [stk EXCEPT ![t] = Append([@ EXCEPT ![Len(@)] = frame], callee)]
Throw(t) == [stk EXCEPT ![t] = <<>>]

\* the statements of the tracker that read or write refcount, children
\* or parents
MapAccess == {"is_valid", "ref", "count", "deref", "relationship",
              "invalidate", "children", "each"}

InitMx ==
    /\ mm = NewManager
    /\ mems = EmptyBag
    /\ made = 0
    /\ arg = [fn |-> "none"]
    /\ res = [st |-> "none"]
    /\ stk = [t \in Threads |-> <<>>]
    /\ mutex = 0

\* the range of the key child lies in the range of the key parent
Within(child, parent) ==
    parent[1] <= child[1] /\ child[1] + child[2] <= parent[1] + parent[2]

\* a thread calls one of the functions of the tracker; relationship is
\* called by subsection, after its bounds checks
MxCall(t, op, key, child) ==
    /\ stk[t] = <<>>
    /\ made < MaxCalls
    /\ op = "relationship" => Within(child, key)
    /\ made' = made + 1
    /\ stk' = [stk EXCEPT ![t] =
                 IF op = "is_valid" THEN <<Frame(op, key, "is_valid", "none")>>
                 ELSE IF op = "relationship"
                      THEN IF key = child THEN <<>>
                           ELSE <<[Frame(op, key, "lock", op) EXCEPT !.child = child]>>
                      ELSE <<Frame(op, key, "lock", op)>>]
    /\ UNCHANGED <<mm, mems, arg, res, mutex>>

\* mutex.lock()
MxLock(t) ==
    /\ At(t, "lock")
    /\ mutex = 0
    /\ mutex' = t
    /\ stk' = Goto(t, [Top(t) EXCEPT !.pc = Top(t).next])
    /\ UNCHANGED <<mm, mems, made, arg, res>>

\* is_valid: the find and the at() on refcount, and the return
MxIsValid(t) ==
    /\ At(t, "is_valid")
    /\ stk' = Return(t)
    /\ UNCHANGED <<mm, mems, made, arg, res, mutex>>

\* ref, from the find to the unlock before the recursive call, or to the
\* read of the count
MxRef(t) ==
    /\ At(t, "ref")
    /\ LET key == Top(t).key
           rc == IF key \in DOMAIN mm.refcount THEN mm.refcount[key] ELSE 0
       IN  /\ mm' = [mm EXCEPT !.refcount = Put(mm.refcount, key, rc + 1)]
           /\ IF key \in DOMAIN mm.parents
              THEN /\ mutex' = 0
                   /\ stk' = Call(t, [Top(t) EXCEPT !.pc = "lock", !.next = "count"],
                                  Frame("ref", mm.parents[key], "lock", "ref"))
              ELSE /\ mutex' = mutex
                   /\ stk' = Goto(t, [Top(t) EXCEPT !.pc = "count"])
    /\ UNCHANGED <<mems, made, arg, res>>

\* ref: count = refcount.at(key), unlock, return
MxCount(t) ==
    /\ At(t, "count")
    /\ IF Top(t).key \in DOMAIN mm.refcount
       THEN /\ mutex' = 0
            /\ stk' = Return(t)
            /\ mm' = mm
       ELSE /\ mutex' = mutex
            /\ stk' = Throw(t)
            /\ mm' = [mm EXCEPT !.fault = TRUE]
    /\ UNCHANGED <<mems, made, arg, res>>

\* deref, from the find to the unlock
MxDeref(t) ==
    /\ At(t, "deref")
    /\ mutex' = 0
    /\ LET key == Top(t).key
       IN  IF key \notin DOMAIN mm.refcount
           THEN /\ stk' = Return(t)
                /\ mm' = mm
           ELSE LET value == mm.refcount[key] - 1
                    after == [Top(t) EXCEPT !.pc = "tail", !.value = value]
                IN  /\ mm' = [mm EXCEPT !.refcount[key] = value]
                    /\ stk' = IF key \in DOMAIN mm.parents
                              THEN Call(t, after, Frame("deref", mm.parents[key], "lock", "deref"))
                              ELSE Goto(t, after)
    /\ UNCHANGED <<mems, made, arg, res>>

\* deref: if (value == 0) invalidate(ptr, size, true); return value
MxTail(t) ==
    /\ At(t, "tail")
    /\ stk' = IF Top(t).value = 0
              THEN Call(t, [Top(t) EXCEPT !.value = 1],
                        [Frame("invalidate", Top(t).key, "lock", "invalidate")
                            EXCEPT !.derefed_parent = TRUE])
              ELSE Return(t)
    /\ UNCHANGED <<mm, mems, made, arg, res, mutex>>

\* relationship, from the insert into parents to the unlock
MxRelationship(t) ==
    /\ At(t, "relationship")
    /\ mutex' = 0
    /\ mm' = relationship(mm, Top(t).key, Top(t).child)
    /\ stk' = Return(t)
    /\ UNCHANGED <<mems, made, arg, res>>

\* invalidate, from the find to the deref of the parent
MxInvalidate(t) ==
    /\ At(t, "invalidate")
    /\ LET key == Top(t).key
       IN  IF key \notin DOMAIN mm.refcount
           THEN /\ mutex' = 0
                /\ stk' = Return(t)
                /\ mm' = mm
           ELSE LET t1 == [mm EXCEPT !.refcount = Drop(mm.refcount, key)]
                IN  IF key \notin DOMAIN mm.parents
                    THEN /\ mutex' = mutex
                         /\ stk' = Goto(t, [Top(t) EXCEPT !.pc = "children"])
                         /\ mm' = t1
                    ELSE LET parent_key == mm.parents[key]
                         IN  IF parent_key \notin DOMAIN mm.children
                             THEN /\ mutex' = mutex
                                  /\ stk' = Throw(t)
                                  /\ mm' = [t1 EXCEPT !.fault = TRUE]
                             ELSE /\ mm' = [t1 EXCEPT !.children[parent_key] = @ \ {key}]
                                  /\ IF Top(t).derefed_parent
                                     THEN /\ mutex' = mutex
                                          /\ stk' = Goto(t, [Top(t) EXCEPT !.pc = "children"])
                                     ELSE /\ mutex' = 0
                                          /\ stk' = Call(t, [Top(t) EXCEPT !.pc = "lock", !.next = "children"],
                                                         Frame("deref", parent_key, "lock", "deref"))
    /\ UNCHANGED <<mems, made, arg, res>>

\* invalidate: the copy of the child set, or the erase from parents and
\* the unlock when there is none
MxChildren(t) ==
    /\ At(t, "children")
    /\ IF Top(t).key \in DOMAIN mm.children
       THEN /\ mutex' = mutex
            /\ stk' = Goto(t, [Top(t) EXCEPT !.pc = "each",
                                             !.child_keys = SortedKeys(mm.children[Top(t).key])])
            /\ mm' = mm
       ELSE /\ mutex' = 0
            /\ stk' = Return(t)
            /\ mm' = [mm EXCEPT !.parents = Drop(mm.parents, Top(t).key)]
    /\ UNCHANGED <<mems, made, arg, res>>

\* invalidate: one round of the loop over child_keys, or the erases and
\* the unlock after it
MxEach(t) ==
    /\ At(t, "each")
    /\ mutex' = 0
    /\ IF Top(t).child_keys # <<>>
       THEN /\ stk' = Call(t, [Top(t) EXCEPT !.pc = "lock", !.next = "each",
                                             !.child_keys = Tail(Top(t).child_keys)],
                           Frame("invalidate", Head(Top(t).child_keys), "lock", "invalidate"))
            /\ mm' = mm
       ELSE /\ stk' = Return(t)
            /\ mm' = [mm EXCEPT !.children = Drop(mm.children, Top(t).key),
                                !.parents = Drop(mm.parents, Top(t).key)]
    /\ UNCHANGED <<mems, made, arg, res>>

NextMx ==
    \E t \in Threads :
        \/ \E op \in {"is_valid", "ref", "deref", "relationship", "invalidate"} :
               \E key \in MxKeys, child \in MxKeys : MxCall(t, op, key, child)
        \/ MxLock(t)
        \/ MxIsValid(t)
        \/ MxRef(t)
        \/ MxCount(t)
        \/ MxDeref(t)
        \/ MxTail(t)
        \/ MxRelationship(t)
        \/ MxInvalidate(t)
        \/ MxChildren(t)
        \/ MxEach(t)

SpecMx == InitMx /\ [][NextMx]_vars


(***************************************************************************)
(* Properties of the tracker specification                                 *)
(***************************************************************************)
\* v is a sub-view made by subsection, at any depth, from the storage that
\* the owned region m holds now
RegisteredUnder(v, m) ==
    /\ v.org = "sub"
    /\ v.stale = "no"
    /\ m.ptr <= v.ptr
    /\ v.ptr + v.size <= m.ptr + m.size

\* C1: when an owned region is deallocated (deallocate, clear, destructor),
\* every sub-view registered under it, at any depth, fails its next access
\* with InvalidPointerException when the operation returns.
C1_DeallocInvalidatesViews ==
    [][\A m \in Live :
          (m.allocated /\ (Deallocate(m) \/ Destroy(m)))
              => \A v \in Live : RegisteredUnder(v, m)
                     => ptr(mm', v) = "InvalidPointerException"]_vars

\* C2: a sub-view of an owned region whose storage was moved by a
\* reallocating operation fails every later access with
\* InvalidPointerException.
C2_Claim ==
    \A v \in Live : (v.org = "sub" /\ v.stale = "realloc")
                        => ptr(mm, v) = "InvalidPointerException"

\* C3: a header wrapper obtained from a PE fails every access with
\* InvalidPointerException once the PE's storage was freed or moved.
C3_Claim ==
    \A v \in Live : (v.org = "wrap" /\ v.stale # "no")
                        => ptr(mm, v) = "InvalidPointerException"

\* C4: while the root is not deallocated and a sub-view is alive, every
\* region the sub-view was derived through has a count above zero.
C4_Claim ==
    \A v \in Live : (v.org = "sub" /\ v.stale = "no")
                        => \A a \in v.anc : is_valid(mm, a)

(***************************************************************************)
(* Properties of the thread specification                                  *)
(***************************************************************************)
\* C5: a thread that is at a statement of the tracker reading or writing
\* refcount, children or parents (in ref, deref, relationship, invalidate
\* or is_valid) holds the mutex.
C5_Claim ==
    \A t \in DOMAIN stk :
        (stk[t] # <<>> /\ Top(t).pc \in MapAccess) => mutex = t

(***************************************************************************)
(* Properties of the pure accessors                                        *)
(***************************************************************************)
Done(fn) == arg.fn = fn /\ res.st # "none"

Increasing(q) == \A i, j \in 1 .. Len(q) : i < j => q[i] < q[j]

\* C6: a typed read of sizeof(U) bytes at byte offset o with
\* o + sizeof(U) <= length succeeds exactly when o is a multiple of
\* min(element size, sizeof(U)), and then yields the little-endian value of
\* the bytes [o, o + sizeof(U)).
C6_Claim ==
    (Done("cast_ptr") /\ arg.offset + arg.usz <= byte_size(arg.R))
        => LET m == IF arg.R.esz < arg.usz THEN arg.R.esz ELSE arg.usz
           IN  /\ (res.st = "ok") <=> (arg.offset % m = 0)
               /\ res.st = "ok" =>
                      res.val = Decode([k \in 1 .. arg.usz |-> arg.R.bytes[arg.offset + k]])

\* C7 as stated: get(i) returns element i when i is below the element count
\* and fails with OutOfBoundsException otherwise, on every region, a
\* default-constructed one included.
C7_Claim ==
    Done("get")
        => IF arg.index < byte_size(arg.R) \div arg.R.esz
           THEN /\ res.st = "ok"
                /\ res.val = [k \in 1 .. arg.R.esz |-> arg.R.bytes[arg.index * arg.R.esz + k]]
           ELSE res.st = "OutOfBoundsException"

\* C7 amended: on a region whose pointer is null get(i) fails with
\* NullPointerException; on every other region it returns element i when i
\* is below the element count and fails with OutOfBoundsException otherwise.
C7_Amended ==
    Done("get")
        => IF arg.R.null THEN res.st = "NullPointerException"
           ELSE IF arg.index < byte_size(arg.R) \div arg.R.esz
           THEN /\ res.st = "ok"
                /\ res.val = [k \in 1 .. arg.R.esz |-> arg.R.bytes[arg.index * arg.R.esz + k]]
           ELSE res.st = "OutOfBoundsException"

\* get(0) was applied to a default-constructed region
C7_Witness ==
    Done("get") /\ arg.R.null /\ arg.index = 0 /\ res.st = "NullPointerException"

\* C8: for types that align, reinterpret<U>() returns a view over all the
\* bytes of the region when their number is a multiple of sizeof(U) and
\* fails with InsufficientDataException when it is not.
C8_Claim ==
    (Done("reinterpret") /\ (arg.R.esz % arg.usz = 0 \/ arg.usz % arg.R.esz = 0))
        => IF byte_size(arg.R) % arg.usz = 0
           THEN res.st = "ok" /\ res.off = 0 /\ res.len = byte_size(arg.R)
           ELSE res.st = "InsufficientDataException"

\* the offsets where the term t occurs in B
Occurrences(B, t) ==
    {o \in 0 .. Len(B) - Len(t) : \A k \in 1 .. Len(t) : B[o + k] = t[k]}

\* C9: search of a non-empty term not longer than the region returns the
\* offsets where the term occurs, all of them and nothing else, in
\* increasing order.
C9_SearchExact ==
    (Done("search") /\ arg.term # <<>> /\ Len(arg.term) <= Len(arg.B))
        => /\ res.st = "ok"
           /\ {res.val[i] : i \in 1 .. Len(res.val)} = Occurrences(arg.B, arg.term)
           /\ Increasing(res.val)

\* a term of two elements was found at two offsets, the last possible one
\* among them
C9_Witness ==
    /\ Done("search")
    /\ Len(arg.term) = 2
    /\ res.st = "ok"
    /\ Len(res.val) = 2
    /\ res.val[2] = Len(arg.B) - 2

\* the offsets where the pattern t matches B at its positions with a value
DynamicOccurrences(B, t) ==
    {o \in 0 .. Len(B) - Len(t) :
        \A k \in 1 .. Len(t) : t[k].has_value => B[o + k] = t[k].value}

AllWild(t) == \A k \in 1 .. Len(t) : ~t[k].has_value

Matched(B, t, r) ==
    /\ r.st = "ok"
    /\ {r.val[i][1] : i \in 1 .. Len(r.val)} = DynamicOccurrences(B, t)
    /\ Increasing([i \in 1 .. Len(r.val) |-> r.val[i][1]])
    /\ \A i \in 1 .. Len(r.val) :
           r.val[i][2] = [k \in 1 .. Len(t) |-> B[r.val[i][1] + k]]

\* C10 as stated: search_dynamic fails with SearchTooBroadException when
\* every position of the pattern is a wildcard, and otherwise returns the
\* offsets o with o + length(pattern) <= length(B) where the pattern matches
\* at its positions with a value, each with the elements matched there.
C10_Claim ==
    Done("search_dynamic")
        => IF AllWild(arg.term) THEN res.st = "SearchTooBroadException"
           ELSE Matched(arg.B, arg.term, res)

\* C10 amended: a pattern longer than the region fails with
\* OutOfBoundsException, whatever its positions; a pattern that fits fails
\* with SearchTooBroadException when every position is a wildcard, and
\* otherwise returns the offsets where it matches at its positions with a
\* value, in increasing order, each with the elements matched there.
C10_Amended ==
    Done("search_dynamic")
        => IF Len(arg.term) > Len(arg.B) THEN res.st = "OutOfBoundsException"
           ELSE IF AllWild(arg.term) THEN res.st = "SearchTooBroadException"
           ELSE Matched(arg.B, arg.term, res)

\* a pattern of wildcards only, longer than the region, was searched for
C10_Witness ==
    /\ Done("search_dynamic")
    /\ arg.term # <<>>
    /\ AllWild(arg.term)
    /\ Len(arg.term) > Len(arg.B)
    /\ res.st = "OutOfBoundsException"

\* C11 as stated: on the 19-byte region of the test, search_dynamic with the
\* pattern [wildcard, 27, 64, wildcard, 27, 64] returns exactly one match,
\* and that match is at offset 6.
C11_Claim ==
    (Done("search_dynamic") /\ arg.B = dynamic_data /\ arg.term = dynamic_search)
        => /\ res.st = "ok"
           /\ Len(res.val) = 1
           /\ res.val[1][1] = 6

\* C11 amended: that search returns exactly one match, at offset 3, with the
\* six bytes 58 27 64 FF 27 64 that stand there.
C11_Amended ==
    (Done("search_dynamic") /\ arg.B = dynamic_data /\ arg.term = dynamic_search)
        => /\ res.st = "ok"
           /\ Len(res.val) = 1
           /\ res.val[1] = <<3, <<88, 39, 100, 255, 39, 100>>>>

\* the pattern of the test was searched for in the region of the test
C11_Witness ==
    /\ Done("search_dynamic")
    /\ arg.B = dynamic_data
    /\ arg.term = dynamic_search
    /\ res.st = "ok"
    /\ Len(res.val) = 1

(***************************************************************************)
(* Properties of the operations on borrowed regions                        *)
(***************************************************************************)
\* the call recorded in res found the region and the tracker as they are now
Untouched == res.after = res.m /\ mm = res.tracker /\ res.m \in Live

ValidPE == valid_nt_headers(arg.B).st = "ok" /\ section_table(arg.B).st = "ok"

Sections == 0 .. section_table(arg.B).size - 1

\* the raw range [PointerToRawData, PointerToRawData + SizeOfRawData) and the
\* virtual range [VirtualAddress, VirtualAddress + VirtualSize) of section i,
\* the sums taken in the integers
RawStart(i) == SectionField(arg.B, section_table(arg.B), i, At_PointerToRawData)
RawEnd(i) ==
    Plus(Cast(RawStart(i), 8), SectionField(arg.B, section_table(arg.B), i, At_SizeOfRawData))
VirtualStart(i) == SectionField(arg.B, section_table(arg.B), i, At_VirtualAddress)
VirtualEnd(i) ==
    Plus(Cast(VirtualStart(i), 8), SectionField(arg.B, section_table(arg.B), i, At_VirtualSize))
InRaw(i, o) == AtMost(RawStart(i), o) /\ Less(o, RawEnd(i))
InVirtual(i, r) == AtMost(VirtualStart(i), r) /\ Less(r, VirtualEnd(i))

\* no range reaches 2^32, no two sections share a file offset or an RVA
Disjoint ==
    /\ \A i \in Sections : AtMost(RawEnd(i), Ones32) /\ AtMost(VirtualEnd(i), Ones32)
    /\ \A i, j \in Sections :
           i # j => /\ AtMost(RawEnd(i), RawStart(j)) \/ AtMost(RawEnd(j), RawStart(i))
                    /\ \/ AtMost(VirtualEnd(i), VirtualStart(j))
                       \/ AtMost(VirtualEnd(j), VirtualStart(i))

OffsetTrip ==
    /\ arg.path = <<"offset_to_rva", "rva_to_offset">>
    /\ ValidPE
    /\ validate_offset(arg.B, arg.x.u32)
    /\ \E i \in Sections : InRaw(i, arg.x.u32)

RvaTrip ==
    /\ arg.path = <<"rva_to_offset", "offset_to_rva">>
    /\ ValidPE
    /\ validate_rva(arg.B, arg.x.u32)
    /\ \E i \in Sections : InVirtual(i, arg.x.u32)

VaOf(r) ==
    LET nt == valid_nt_headers(arg.B)
    IN  IF arch(arg.B, nt) \in {"I386", "ARM"}
        THEN VA32(Plus(Cast(image_base(arg.B, nt), 4), r))
        ELSE VA64(Plus(image_base(arg.B, nt), r))

RvaVaTrip ==
    /\ arg.path = <<"rva_to_va", "va_to_rva">>
    /\ valid_nt_headers(arg.B).st = "ok"
    /\ arch(arg.B, valid_nt_headers(arg.B)) # "UNSUPPORTED"
    /\ validate_rva(arg.B, arg.x.u32)

\* C14: on an image of machine i386, arm, amd64 or arm64, with either
\* optional magic, rva_to_va of a valid RVA r succeeds and yields
\* image_base + r in the width of the machine, and va_to_rva brings it back
\* to r.
C14_Claim ==
    (res.n >= 1 /\ RvaVaTrip) =>
        /\ res.st = "ok"
        /\ res.n = 1 => res.val = Va(VaOf(arg.x.u32))
        /\ res.n = 2 => res.val = arg.x

\* the VA lies in [image_base, image_base + SizeOfImage)
ValidVA(va) ==
    LET nt == valid_nt_headers(arg.B)
        start == image_base(arg.B, nt)
    IN  /\ nt.st = "ok"
        /\ AtMost(start, va.value)
        /\ Less(va.value, Plus(start, SizeOfImage(arg.B, nt)))

\* C15: a conversion rejects a source address outside its space, an offset
\* with InvalidOffsetException, an RVA with InvalidRVAException, a VA with
\* InvalidVAException, and an address it returns is valid in the space it
\* converts to.
C15_Claim ==
    res.n = 1 =>
        LET fn == arg.path[1]
        IN  /\ (fn \in {"offset_to_rva", "offset_to_va"} /\ ~validate_offset(arg.B, arg.x.u32))
                   => res.st = "InvalidOffsetException"
            /\ (fn \in {"rva_to_offset", "rva_to_va"} /\ ~validate_rva(arg.B, arg.x.u32))
                   => res.st = "InvalidRVAException"
            /\ (fn \in {"va_to_rva", "va_to_offset"} /\ ~ValidVA(arg.x.va))
                   => res.st = "InvalidVAException"
            /\ (res.st = "ok" /\ fn = "rva_to_offset") => validate_offset(arg.B, res.val.u32)
            /\ (res.st = "ok" /\ fn = "va_to_offset") => validate_offset(arg.B, res.val.u32)
            /\ (res.st = "ok" /\ fn \in {"offset_to_rva", "va_to_rva"})
                   => validate_rva(arg.B, res.val.u32)
            /\ (res.st = "ok" /\ fn \in {"rva_to_va", "offset_to_va"}) => ValidVA(res.val.va)

\* the same on the images with 32-bit NT headers, where validate_address(VA)
\* reads the SizeOfImage of the headers the image has
C15_OnHeaders32 ==
    (valid_nt_headers(arg.B).st = "ok" => valid_nt_headers(arg.B).is_32) => C15_Claim

\* the lookup section_by_offset or section_by_rva of an address was made in
\* the section table of the image; Has(i) is has_offset or has_rva of
\* section i for that address
LookedUp ==
    /\ res.n = 1
    /\ arg.path[1] \in {"section_by_offset", "section_by_rva"}
    /\ section_table(arg.B).st = "ok"

Has(i) ==
    IF arg.path[1] = "section_by_offset"
    THEN has_offset(arg.B, section_table(arg.B), i, arg.x.u32)
    ELSE has_rva(arg.B, section_table(arg.B), i, arg.x.u32)

\* C16: the section section_by_offset returns has the offset and no other
\* section of the table has it; when no section has it the lookup fails with
\* SectionNotFoundException; likewise section_by_rva.
C16_Claim ==
    LookedUp =>
        /\ res.st = "ok" => /\ Has(res.val.index)
                            /\ \A j \in Sections : j # res.val.index => ~Has(j)
        /\ (\A j \in Sections : ~Has(j)) => res.st = "SectionNotFoundException"

\* C16, as the code has it: the section returned has the address and is the
\* first of the table that has it, no section before it has the address;
\* sections behind it may have it too.
C16_Amended ==
    LookedUp =>
        /\ res.st = "ok" => /\ Has(res.val.index)
                            /\ \A j \in Sections : j < res.val.index => ~Has(j)
        /\ (\A j \in Sections : ~Has(j)) => res.st = "SectionNotFoundException"
        /\ (\E j \in Sections : Has(j)) => res.st = "ok"

\* a lookup by offset that returned the first of two sections having the offset
C16_Witness ==
    /\ LookedUp
    /\ arg.path[1] = "section_by_offset"
    /\ res.st = "ok" /\ res.val.index = 0
    /\ section_table(arg.B).size = MaxSections
    /\ Has(0) /\ Has(1)

(***************************************************************************)
(* Properties of the operations on the headers, checked under SpecImage.   *)
(***************************************************************************)
\* C17: when calculate_checksum succeeds and its result is written to the
\* CheckSum field of the image, validate_checksum returns true.
C17_Claim ==
    (arg.path = <<"calculate_checksum", "set_checksum", "validate_checksum">> /\ res.n = 3)
        => res.st = "ok" /\ res.val = <<TRUE>>

\* the same on the images whose NT headers start on a dword, where the loop
\* of calculate_checksum meets the CheckSum field and leaves it out
C17_OnDword ==
    (e_lfanew(arg.B).st = "ok" => Decode(Cast(e_lfanew(arg.B).val, 3)) % 4 = 0) => C17_Claim

\* NumberOfSections of the image B and the entry i of its section table,
\* read where the headers of the image add_section was called on put them
NumberOfSections(B) == Decode(Cast(Field(B, Lfanew + At_NumberOfSections, 2), 3))
Entry(B, i) ==
    Inside(B, Lfanew + At_OptionalHeader
                  + Decode(Cast(Field(arg.B, Lfanew + At_SizeOfOptionalHeader, 2), 3))
                  + i * SizeofSectionHeader,
           SizeofSectionHeader)

Added ==
    /\ arg.path = <<"add_section">>
    /\ res.n = 1
    /\ valid_nt_headers(arg.B).st = "ok"

SlotAddress == SlotField(arg.B, valid_nt_headers(arg.B), arg.directory, 0)
SlotSize == SlotField(arg.B, valid_nt_headers(arg.B), arg.directory, At_Size)
SlotCount == data_directory_size(arg.B, valid_nt_headers(arg.B))
SlotEmpty == SlotAddress = LE(0, 4) /\ SlotSize = LE(0, 4)

Asked ==
    /\ arg.path = <<"directory">>
    /\ res.n = 1
    /\ valid_nt_headers(arg.B).st = "ok"

\* C19: directory<T> fails with DirectoryUnavailableException when the slot
\* of T is empty, when its index is at or behind the number of slots, and
\* when its VirtualAddress is no valid RVA; it returns a view only for a
\* populated slot with a valid RVA.
C19_Claim ==
    Asked =>
        /\ (arg.directory >= SlotCount \/ SlotEmpty \/ ~validate_rva(arg.B, SlotAddress))
               => res.st = "DirectoryUnavailableException"
        /\ res.st = "ok" =>
               arg.directory < SlotCount /\ ~SlotEmpty /\ validate_rva(arg.B, SlotAddress)

\* the same for the slots that are not empty, which has_directory tells
\* from the others by the RVA alone
C19_OnPopulated == (Asked /\ arg.directory < SlotCount => ~SlotEmpty) => C19_Claim

\* C20: after load_file the region has the bytes of the file, as many and
\* the same, and save writes those bytes: the file saved is the file loaded.
C20_Claim ==
    (arg.path = <<"load_file", "save">> /\ res.st = "ok") =>
        /\ res.n >= 1 => res.B = arg.file
        /\ res.n = 2 => res.val = arg.file

\* what the region holds and what is saved without translation: the bytes
\* of the file and as many zeros behind them
C20_Doubled ==
    (arg.path = <<"load_file", "save">> /\ res.st = "ok" /\ res.n >= 1) =>
        /\ Len(res.B) = 2 * Len(arg.file)
        /\ SubSeq(res.B, 1, Len(arg.file)) = arg.file

\* where the section table of the image starts, from the headers that
\* Image put at Lfanew, and where its NumberOfSections headers end
TableStart(B) ==
    Lfanew + At_OptionalHeader + Decode(Cast(Field(B, Lfanew + At_SizeOfOptionalHeader, 2), 3))
TableEnd(B) == TableStart(B) + NumberOfSections(B) * SizeofSectionHeader

TableTaken ==
    /\ arg.path = <<"section_table">>
    /\ res.n = 1
    /\ valid_nt_headers(arg.B).st = "ok"

\* C21: the view section_table returns has NumberOfSections headers and lies
\* inside the image; a table that ends behind the end of the image makes
\* section_table fail with OutOfBoundsException.
C21_Claim ==
    TableTaken =>
        /\ res.st = "ok" =>
               /\ res.val = <<TableStart(arg.B), NumberOfSections(arg.B)>>
               /\ TableEnd(arg.B) <= Len(arg.B)
        /\ TableEnd(arg.B) > Len(arg.B) => res.st = "OutOfBoundsException"

\* what the check of section_table secures: the first header of the table
\* is inside the image, and so is one byte for each header
C21_OnBytes ==
    (TableTaken /\ res.st = "ok") =>
        /\ res.val = <<TableStart(arg.B), NumberOfSections(arg.B)>>
        /\ TableStart(arg.B) + SizeofSectionHeader <= Len(arg.B)
        /\ TableStart(arg.B) + NumberOfSections(arg.B) <= Len(arg.B)

(***************************************************************************)
(* Properties of split_at, checked under SpecPure.                         *)
(***************************************************************************)
\* the midpoint of the call in bytes, and the bytes a view covers
MidBytes == IF arg.mid_in_bytes THEN arg.midpoint ELSE arg.midpoint * arg.R.esz
Covered(view) == SubSeq(arg.R.bytes, view.off + 1, view.off + view.len)

\* split_at was called on a region that is not null, at a midpoint that is
\* on an element
Split ==
    /\ arg.fn = "split_at"
    /\ res.st # "none"
    /\ ~arg.R.null
    /\ MidBytes % arg.R.esz = 0

Halves ==
    /\ res.st = "ok"
    /\ res.first.off = 0
    /\ res.first.len = MidBytes
    /\ res.second.off = MidBytes
    /\ res.second.len = byte_size(arg.R) - MidBytes
    /\ Covered(res.first) \o Covered(res.second) = arg.R.bytes

\* C22: split_at at a midpoint m on an element, 0 <= m <= n, returns a view
\* of the bytes [0, m) and a view of the bytes [m, n) of the region of n
\* bytes; at a midpoint behind the end it fails with OutOfBoundsException.
C22_Claim ==
    Split =>
        /\ MidBytes <= byte_size(arg.R) => Halves
        /\ MidBytes > byte_size(arg.R) => res.st = "OutOfBoundsException"

\* what split_at does: the two views for a midpoint strictly inside the
\* region, OutOfBoundsException for one at its end or behind it
C22_Inside ==
    Split =>
        /\ (0 < MidBytes /\ MidBytes < byte_size(arg.R)) => Halves
        /\ (0 < MidBytes /\ MidBytes >= byte_size(arg.R)) => res.st = "OutOfBoundsException"

\* cstring_at was called at an index inside the image with a zero byte at
\* it or behind it; FirstZero is the index of the first such byte
Terminated ==
    /\ arg.path = <<"cstring_at">>
    /\ res.n = 1
    /\ arg.memory_offset < Len(arg.B)
    /\ \E z \in arg.memory_offset .. Len(arg.B) - 1 : arg.B[z + 1] = 0
FirstZero ==
    CHOOSE z \in arg.memory_offset .. Len(arg.B) - 1 :
        /\ arg.B[z + 1] = 0
        /\ \A y \in arg.memory_offset .. z - 1 : arg.B[y + 1] # 0

\* C26: cstring_at at an index o with a first zero byte at z >= o returns
\* the view of the z - o + 1 bytes from o: the string and its terminator.
C26_Claim ==
    Terminated =>
        /\ res.st = "ok"
        /\ res.val = <<arg.memory_offset, FirstZero - arg.memory_offset + 1>>

\* what cstring_at returns: a view of z + 1 bytes from o, which is the
\* string for o = 0, and OutOfBoundsException when that view ends behind
\* the image
C26_FromStart ==
    Terminated =>
        IF arg.memory_offset + FirstZero + 1 <= Len(arg.B)
        THEN res.st = "ok" /\ res.val = <<arg.memory_offset, FirstZero + 1>>
        ELSE res.st = "OutOfBoundsException"

\* C29: an add_section that fails with an exception leaves the image as it
\* was: NumberOfSections and every other byte.
C29_Claim ==
    (arg.path = <<"add_section">> /\ res.n = 1 /\ res.st \notin {"ok", "SIGSEGV"})
        => res.B = arg.B

\* what holds: the failures before the count is touched leave the image as
\* it was; an OutOfBoundsException of section_table leaves the image with
\* NumberOfSections one higher and nothing else changed
C29_Counted ==
    (arg.path = <<"add_section">> /\ res.n = 1 /\ res.st \notin {"ok", "SIGSEGV"}) =>
        IF valid_nt_headers(arg.B).st = "ok" /\ res.st = "OutOfBoundsException"
        THEN res.B = Poke(arg.B, Lfanew + At_NumberOfSections,
                          LE(NumberOfSections(arg.B) + 1, 2))
        ELSE res.B = arg.B

\* the offset of the write in bytes, and the write done
WriteAt == IF arg.offset_in_bytes THEN arg.offset ELSE arg.offset * arg.R.esz
Wrote == arg.fn = "write" /\ res.st # "none"

\* C25: a write into a region fails with an exception and leaves the bytes
\* of the region as they were, or replaces the bytes [o, o + len) of the
\* region by the data, o the offset in bytes and len the length of the data
\* in bytes, and leaves the others; no byte is written outside the region.
C25_Claim ==
    Wrote =>
        /\ res.behind = <<>>
        /\ res.st # "SIGSEGV"
        /\ res.st # "ok" => res.B = arg.R.bytes
        /\ res.st = "ok" =>
               /\ WriteAt + Len(arg.D.bytes) <= byte_size(arg.R)
               /\ res.B = Poke(arg.R.bytes, WriteAt, arg.D.bytes)

\* what the write secures: the same for the regions of bytes, and for an
\* offset in elements with data that is a whole number of elements
C25_OnBytes ==
    (/\ arg.fn = "write"
     /\ \/ arg.R.esz = 1
        \/ ~arg.offset_in_bytes /\ Len(arg.D.bytes) % arg.R.esz = 0) => C25_Claim

(***************************************************************************)
(* Properties of the owned regions, checked under Spec.                    *)
(***************************************************************************)
\* C23: split_off at a midpoint inside an owned region leaves the region
\* with its first midpoint elements and accessible, and returns an owned
\* region of its own with the elements behind the midpoint, accessible too.
C23_Claim ==
    [][\A m \in Live, midpoint \in 1 .. MaxSize, b \in Bases, copy_b \in Bases :
          SplitOff(m, midpoint, b, copy_b) =>
              LET holds(r) ==
                      /\ r.res = "ok"
                      /\ r.m.allocated
                      /\ r.m.size = midpoint
                      /\ ptr(mm', r.m) = "ok"
                      /\ r.rhs.allocated
                      /\ r.rhs.size = m.size - midpoint
                      /\ r.rhs.ptr # r.m.ptr
                      /\ ptr(mm', r.rhs) = "ok"
              IN  holds(split_off(mm, m, midpoint, b, copy_b))]_vars

\* C24: pop on an owned region with elements returns the last one and
\* leaves the region with the elements before it; on a region without
\* elements it returns nothing and leaves the region and the tracker as
\* they are.
C24_Claim ==
    [][\A m \in Live, b \in Bases :
          Pop(m, b) =>
              LET holds(r) ==
                      /\ elements(m) >= 1 =>
                             /\ r.res = "ok"
                             /\ elements(r.m) = elements(m) - 1
                      /\ elements(m) = 0 =>
                             /\ r.res = "nullopt"
                             /\ r.m = m
                             /\ r.mm = mm
              IN  holds(pop(mm, m, b))]_vars

\* what pop does: on a region of one element the resize to no element
\* frees the region and fails, on a longer one that is valid in the
\* tracker it succeeds
C24_OnLonger ==
    [][\A m \in Live, b \in Bases :
          Pop(m, b) =>
              LET holds(r) ==
                      /\ (elements(m) >= 2 /\ ptr(mm, m) = "ok") =>
                             /\ r.res = "ok"
                             /\ r.m.allocated
                             /\ elements(r.m) = elements(m) - 1
                      /\ (elements(m) = 1 /\ ptr(mm, m) = "ok") =>
                             /\ r.res = "InsufficientAllocationException"
                             /\ r.m.ptr = Null
                             /\ ~r.m.allocated
                      /\ elements(m) = 0 =>
                             /\ r.res = "nullopt"
                             /\ r.m = m
                             /\ r.mm = mm
              IN  holds(pop(mm, m, b))]_vars

\* C27: an owned region that is allocated is valid in the tracker: an access
\* through it does not fail with InvalidPointerException.
C27_Claim == \A m \in Live : m.allocated => ptr(mm, m) = "ok"

\* the sub-views of storage that was neither freed nor moved since they
\* were made are valid in the tracker
FreshViewsValid ==
    \A v \in Live : (v.org = "sub" /\ v.stale = "no") => ptr(mm, v) = "ok"

\* C28: a sub-view of an owned region whose storage was neither freed nor
\* moved since the view was made stays valid in the tracker when another
\* such view is destroyed: a sibling, an overlapping view, a view with its
\* address and size, or its parent view.
C28_Claim ==
    [][\A m \in Live :
          (/\ m.org = "sub"
           /\ m.stale = "no"
           /\ FreshViewsValid
           /\ Destroy(m))
              => \A v \in BagToSet(mems') :
                     (v.org = "sub" /\ v.stale = "no") => ptr(mm', v) = "ok"]_vars

(***************************************************************************)
(* Properties of the mutex, checked under SpecMx                           *)
(***************************************************************************)
\* the thread t waits at mutex.lock() for a mutex that no running call
\* will unlock: its holder has no call on its stack, or is t itself
Stuck(t) ==
    /\ At(t, "lock")
    /\ mutex # 0
    /\ (mutex = t \/ stk[mutex] = <<>>)

\* C30: the tracker never deadlocks: a call of ref, deref, relationship or
\* invalidate does not hold the mutex when it re-enters the tracker (it is
\* at mutex.lock()), nor after it has returned or failed, so that no call
\* waits for a mutex that nobody will unlock.
C30_Claim ==
    \A t \in DOMAIN stk :
        /\ (stk[t] = <<>> \/ Top(t).pc = "lock") => mutex # t
        /\ ~Stuck(t)

\* what holds: a call that has not failed does not hold the mutex when it
\* re-enters the tracker or after it has returned
C30_Unfailed ==
    ~mm.fault =>
        \A t \in DOMAIN stk : (stk[t] = <<>> \/ Top(t).pc = "lock") => mutex # t
====
